---- MODULE Spec2Model ----
(***************************************************************************)
(* Gap detection and resumable backfill of the PSX price archive.          *)
(*   fill_missing_data.py : the executor (report -> fetch -> upsert ->     *)
(*                          retire -> rewrite of the report file)          *)
(*   find_missing_data.py : the detector (coverage query, expected         *)
(*                          calendar, grouping, report file)               *)
(* Dates are proleptic Gregorian ordinals as datetime.date.toordinal()     *)
(* gives them; a "YYYY-MM-DD" string is the triple <<y, m, d>>.            *)
(***************************************************************************)
EXTENDS Integers, Sequences, FiniteSets, TLC

VARIABLES
    file,                 \* missing_data_report.json on disk
    pc,                   \* position of the executor in main()
    missing_data,         \* fill_missing_data.main: the report in memory
    ranges_to_symbols,    \* (start,end) -> list of symbols
    unique_ranges,        \* the keys, sorted by duration descending
    fetch_batch_size,     \* FINHISAAB_BATCH_SIZE
    i,                    \* index into unique_ranges (1-based)
    sub_batch_idx,        \* index of the current sub-batch (0-based)
    k,                    \* index of the current symbol in the sub-batch
    batch_data,           \* symbols for which the fetched frame has rows
    range_fully_successful,
    startup,              \* history: the report as loaded at startup
    attempts,             \* history: the fetches of the run, in order
    retired,              \* history: the ranges removed from missing_data
    persisted,            \* history: the ranges whose removal reached the file
    trace,                \* history: what was done for the current range
    dpc,                  \* position of the detector in main()
    store,                \* the price collection: documents {symbol, date}
    start_date,           \* find_missing_data.main: the window checked
    end_date,
    exclusions,           \* list of {start, end} strings
    batch_size,           \* FINHISAAB_BATCH_SIZE of the detector
    max_batches,          \* FINHISAAB_MAX_BATCHES, 0 for None
    batch_number,
    processed_batches,
    page,                 \* find_missing_data.main: symbols_to_process
    symbol_idx,           \* index of the current symbol in the page
    all_missing_data,
    missing_dates,        \* what find_missing_dates returned last
    date_ranges,          \* main: ranges, as group_missing_dates returned them
    ignored_gap_size,     \* main: max_ignored_gap_size
    analysed,             \* history: the symbols analysed, with the outcome
    directory_failed,     \* history: get_stock_symbols hit a PyMongoError
    other,                \* a second executor process on the same file: its locals
    loader                \* mongodb_example.main: its locals and processed_intervals

executor == <<pc, missing_data, ranges_to_symbols, unique_ranges,
              fetch_batch_size, i, sub_batch_idx, k, batch_data,
              range_fully_successful, startup, attempts, retired, persisted,
              trace>>

detector == <<dpc, store, start_date, end_date, exclusions, batch_size,
              max_batches, batch_number, processed_batches, page, symbol_idx,
              all_missing_data, missing_dates, analysed, directory_failed,
              date_ranges, ignored_gap_size>>

vars == <<file, executor, detector, other, loader>>

----------------------------------------------------------------------------
(* Bounds of the model *)

NumSymbols == 3
NumRanges == 3
MaxBatchSize == 2

WindowDays == 5
MaxExclusions == 1
MaxRecords == 2
MaxBatches == 2

GroupDays == 12
MaxIgnoredGap == 2

----------------------------------------------------------------------------
(* Calendar: datetime.date *)

Min(a, b) == IF a <= b THEN a ELSE b

IsLeap(y) == (y % 4 = 0 /\ y % 100 # 0) \/ y % 400 = 0

DaysInMonth(y, m) ==
    IF m = 2 THEN (IF IsLeap(y) THEN 29 ELSE 28)
    ELSE IF m \in {4, 6, 9, 11} THEN 30 ELSE 31

DaysBeforeYear(y) ==
    LET p == y - 1 IN p * 365 + (p \div 4) - (p \div 100) + (p \div 400)

RECURSIVE DaysBeforeMonth(_, _)
DaysBeforeMonth(y, m) ==
    IF m = 1 THEN 0 ELSE DaysBeforeMonth(y, m - 1) + DaysInMonth(y, m - 1)

\* datetime.datetime.strptime(s, "%Y-%m-%d").date(), as an ordinal
strptime(s) == DaysBeforeYear(s[1]) + DaysBeforeMonth(s[1], s[2]) + s[3]

\* date.weekday(): Monday is 0
weekday(n) == (n + 6) % 7

\* date.strftime('%Y-%m-%d')
strftime(n) ==
    LET guess == n \div 365
        y == CHOOSE yy \in (guess - 1)..(guess + 1) :
                 DaysBeforeYear(yy) < n /\ n <= DaysBeforeYear(yy + 1)
        rest == n - DaysBeforeYear(y)
        m == CHOOSE mm \in 1..12 :
                 DaysBeforeMonth(y, mm) < rest
                 /\ rest <= DaysBeforeMonth(y, mm) + DaysInMonth(y, mm)
    IN <<y, m, rest - DaysBeforeMonth(y, m)>>

----------------------------------------------------------------------------
(* The report: an ordered mapping symbol -> list of {start, end}, kept as  *)
(* the sequence of its items in insertion order (a Python dict).           *)

SymbolNames == <<"AAA", "BBB", "CCC", "DDD", "EEE">>
Symbols == {SymbolNames[n] : n \in 1..NumSymbols}

Keys(report) == {report[n].symbol : n \in 1..Len(report)}

Get(report, symbol) ==
    (CHOOSE e \in {report[n] : n \in 1..Len(report)} : e.symbol = symbol).ranges

SeqToSet(s) == {s[n] : n \in 1..Len(s)}

RECURSIVE Filter(_, _)
\* [r for r in ranges if not (r['start'] == start_str and r['end'] == end_str)]
Filter(ranges, key) ==
    IF ranges = <<>> THEN <<>>
    ELSE LET r == Head(ranges)
             rest == Filter(Tail(ranges), key)
         IN IF ~(r.start = key[1] /\ r.end = key[2]) THEN <<r>> \o rest ELSE rest

\* for symbol, ranges in missing_data.items(): for r in ranges: (symbol, key)
RECURSIVE Obligations(_)
Obligations(report) ==
    IF report = <<>> THEN <<>>
    ELSE LET e == Head(report)
         IN [n \in 1..Len(e.ranges) |->
                <<e.symbol, <<e.ranges[n].start, e.ranges[n].end>>>>]
            \o Obligations(Tail(report))

\* the same pairs as a set
ObligationSet(report) ==
    UNION {{<<report[n].symbol, <<r.start, r.end>>>> : r \in SeqToSet(report[n].ranges)} :
              n \in 1..Len(report)}

----------------------------------------------------------------------------
(* Planning: fill_missing_data.main, lines 60-78 and 93-100 *)

EmptyMap == [key \in {} |-> <<>>]

\* mutant: line 68 assigns [symbol] in place of appending
RECURSIVE GroupByRangeOverwrite(_, _)
GroupByRangeOverwrite(obl, map) ==
    IF obl = <<>> THEN map
    ELSE LET symbol == Head(obl)[1]
             key == Head(obl)[2]
         IN GroupByRangeOverwrite(Tail(obl),
                IF key \notin DOMAIN map
                THEN map @@ (key :> <<symbol>>)
                ELSE [map EXCEPT ![key] = <<symbol>>])

\* ranges_to_symbols after the restructuring loop
RECURSIVE GroupByRange(_, _)
GroupByRange(obl, map) ==
    IF obl = <<>> THEN map
    ELSE LET symbol == Head(obl)[1]
             key == Head(obl)[2]
         IN GroupByRange(Tail(obl),
                IF key \notin DOMAIN map
                THEN map @@ (key :> <<symbol>>)
                ELSE [map EXCEPT ![key] = Append(@, symbol)])

\* list(ranges_to_symbols.keys()): the keys in order of first insertion
RECURSIVE KeyOrder(_, _)
KeyOrder(obl, keys) ==
    IF obl = <<>> THEN keys
    ELSE LET key == Head(obl)[2]
         IN KeyOrder(Tail(obl),
                IF key \in SeqToSet(keys) THEN keys ELSE Append(keys, key))

get_duration(date_range) == strptime(date_range[2]) - strptime(date_range[1])

\* insert x behind every element whose duration is not smaller (stable)
RECURSIVE InsertDesc(_, _)
InsertDesc(sorted, x) ==
    IF sorted = <<>> THEN <<x>>
    ELSE IF get_duration(Head(sorted)) >= get_duration(x)
         THEN <<Head(sorted)>> \o InsertDesc(Tail(sorted), x)
         ELSE <<x>> \o sorted

\* mutant: line 78 left out, the keys stay in insertion order
SortByDurationLeftOut(keys) == keys

\* unique_ranges.sort(key=get_duration, reverse=True)
RECURSIVE SortByDuration(_)
SortByDuration(keys) ==
    IF keys = <<>> THEN <<>>
    ELSE InsertDesc(SortByDuration(SubSeq(keys, 1, Len(keys) - 1)),
                    keys[Len(keys)])

\* math.ceil(len(symbols_to_process) / fetch_batch_size), size not 0
NumSubBatches(symbols, size) ==
    IF size > 0 THEN (Len(symbols) + size - 1) \div size
    ELSE 0 - (Len(symbols) \div (0 - size))

\* symbols_to_process[start_idx:end_idx]
SubBatch(symbols, idx, size) ==
    LET start_idx == idx * size
        end_idx == Min(start_idx + size, Len(symbols))
    IN SubSeq(symbols, start_idx + 1, end_idx)

----------------------------------------------------------------------------
(* Retirement: fill_missing_data.main, lines 159-169 *)

\* mutant: the symbol is deleted with all of its ranges
RemoveForSymbolDropsAll(report, symbol, key) ==
    SelectSeq(report, LAMBDA e : e.symbol # symbol)

\* mutant: lines 168-169 left out, the key stays with an empty list
RemoveForSymbolKeepsKey(report, symbol, key) ==
    IF symbol \notin Keys(report) THEN report
    ELSE LET at == CHOOSE n \in 1..Len(report) : report[n].symbol = symbol
         IN [report EXCEPT ![at].ranges = Filter(report[at].ranges, key)]

\* one iteration of "for symbol in symbols_to_process" at line 160
RemoveForSymbol(report, symbol, key) ==
    IF symbol \notin Keys(report) THEN report
    ELSE LET at == CHOOSE n \in 1..Len(report) : report[n].symbol = symbol
             kept == Filter(report[at].ranges, key)
         IN IF kept = <<>>
            THEN SubSeq(report, 1, at - 1) \o SubSeq(report, at + 1, Len(report))
            ELSE [report EXCEPT ![at].ranges = kept]

RECURSIVE RemoveRange(_, _, _)
RemoveRange(report, symbols, key) ==
    IF symbols = <<>> THEN report
    ELSE RemoveRange(RemoveForSymbol(report, Head(symbols), key),
                     Tail(symbols), key)

----------------------------------------------------------------------------
(* Report files a detection run can leave for the executor: per symbol, in *)
(* directory order, an ascending list of ranges more than the gap          *)
(* tolerance apart (find_missing_data.group_missing_dates).                *)

Rng(a, b) == [start |-> a, end |-> b]

RangePool ==
    << Rng(<<2025, 1, 29>>, <<2025, 1, 31>>),
       Rng(<<2025, 2, 6>>, <<2025, 2, 10>>),
       Rng(<<2025, 1, 30>>, <<2025, 2, 3>>),
       Rng(<<2025, 1, 30>>, <<2025, 2, 7>>) >>

Ranges == {RangePool[n] : n \in 1..NumRanges}

KeyOf(r) == <<r.start, r.end>>

RECURSIVE AscendingList(_)
AscendingList(set) ==
    IF set = {} THEN <<>>
    ELSE LET first == CHOOSE r \in set :
                 \A q \in set : strptime(r.start) <= strptime(q.start)
         IN <<first>> \o AscendingList(set \ {first})

Separated(list) ==
    \A n \in 1..(Len(list) - 1) :
        strptime(list[n + 1].start) - strptime(list[n].end) > 3

RangeLists ==
    {list \in {AscendingList(set) : set \in SUBSET Ranges} : Separated(list)}

RECURSIVE ReportOf(_, _)
ReportOf(choice, n) ==
    IF n > NumSymbols THEN <<>>
    ELSE (IF choice[n] = <<>> THEN <<>>
          ELSE <<[symbol |-> SymbolNames[n], ranges |-> choice[n]]>>)
         \o ReportOf(choice, n + 1)

Reports == {ReportOf(choice, 1) : choice \in [1..NumSymbols -> RangeLists]}

Readable(report) == [state |-> "ok", data |-> report]
Unreadable(why) == [state |-> why, data |-> <<>>]

----------------------------------------------------------------------------
(* The detector's calendar and store: find_missing_data.py *)

\* datetime.time.min, datetime.time.max: <<hour, minute, second, microsecond>>
time_min == <<0, 0, 0, 0>>
time_max == <<23, 59, 59, 999999>>

\* datetime.datetime.combine(date, time)
combine(date, time) == [date |-> date, time |-> time]

TimeLe(a, b) ==
    \/ a = b
    \/ \E at \in 1..4 : a[at] < b[at] /\ \A before \in 1..(at - 1) : a[before] = b[before]

\* a <= b on datetime.datetime
DatetimeLe(a, b) == a.date < b.date \/ (a.date = b.date /\ TimeLe(a.time, b.time))

RECURSIVE RollForward(_)
RollForward(date) == IF weekday(date) < 5 THEN date ELSE RollForward(date + 1)

\* pd.bdate_range(start, end): the business days from start to end, ascending
RECURSIVE bdate_range(_, _)
bdate_range(start, end) ==
    LET first == RollForward(start)
    IN IF first > end THEN <<>>
       ELSE <<first>> \o bdate_range(first + 1, end)

\* sorted(list(dates))
RECURSIVE sorted(_)
sorted(dates) ==
    IF dates = {} THEN <<>>
    ELSE LET least == CHOOSE d \in dates : \A e \in dates : d <= e
         IN <<least>> \o sorted(dates \ {least})

\* mutant: an exclusion removes its first day only
RECURSIVE RemoveExclusionsFirstDay(_, _)
RemoveExclusionsFirstDay(expected_dates_set, excl) ==
    IF excl = <<>> THEN expected_dates_set
    ELSE RemoveExclusionsFirstDay(expected_dates_set \ {strptime(Head(excl).start)},
                                  Tail(excl))

\* lines 82-88: the loop over the exclusions
RECURSIVE RemoveExclusions(_, _)
RemoveExclusions(expected_dates_set, excl) ==
    IF excl = <<>> THEN expected_dates_set
    ELSE LET ex_start == strptime(Head(excl).start)
             ex_end == strptime(Head(excl).end)
             ex_dates_set == SeqToSet(bdate_range(ex_start, ex_end))
         IN RemoveExclusions(expected_dates_set \ ex_dates_set, Tail(excl))

\* mutant: the query ends at midnight of end_date (time.min for time.max)
find_missing_dates_to_midnight(symbol, start, end, excl, collection) ==
    LET start_dt == combine(start, time_min)
        end_dt == combine(end, time_min)
        docs == {doc \in collection :
                    /\ doc.symbol = symbol
                    /\ DatetimeLe(start_dt, doc.date)
                    /\ DatetimeLe(doc.date, end_dt)}
        db_dates == {doc.date.date : doc \in docs}
        expected_dates_set == SeqToSet(bdate_range(start, end))
    IN sorted(RemoveExclusions(expected_dates_set, excl) \ db_dates)

\* find_missing_dates, lines 61-93, when the query answers
find_missing_dates(symbol, start, end, excl, collection) ==
    LET start_dt == combine(start, time_min)
        end_dt == combine(end, time_max)
        docs == {doc \in collection :
                    /\ doc.symbol = symbol
                    /\ DatetimeLe(start_dt, doc.date)
                    /\ DatetimeLe(doc.date, end_dt)}
        db_dates == {doc.date.date : doc \in docs}
        expected_dates_set == SeqToSet(bdate_range(start, end))
    IN sorted(RemoveExclusions(expected_dates_set, excl) \ db_dates)

\* mutant: the length of a range taken in calendar days
CloseRangeCalendarDays(ranges, current_start, current_end, max_ignored_gap_size) ==
    IF current_end - current_start + 1 > max_ignored_gap_size
    THEN Append(ranges, [start |-> strftime(current_start),
                         end |-> strftime(current_end)])
    ELSE ranges

\* mutant: a range starts on the Monday of the week of its first date
CloseRangeFromMonday(ranges, current_start, current_end, max_ignored_gap_size) ==
    IF Len(bdate_range(current_start, current_end)) > max_ignored_gap_size
    THEN Append(ranges, [start |-> strftime(current_start - weekday(current_start)),
                         end |-> strftime(current_end)])
    ELSE ranges

\* mutant: the end of a range written as the day before its last date
CloseRangeExclusiveEnd(ranges, current_start, current_end, max_ignored_gap_size) ==
    IF Len(bdate_range(current_start, current_end)) > max_ignored_gap_size
    THEN Append(ranges, [start |-> strftime(current_start),
                         end |-> strftime(current_end - 1)])
    ELSE ranges

\* lines 125-129 and 134-138: keep the closed range if it is long enough
CloseRange(ranges, current_start, current_end, max_ignored_gap_size) ==
    IF Len(bdate_range(current_start, current_end)) > max_ignored_gap_size
    THEN Append(ranges, [start |-> strftime(current_start),
                         end |-> strftime(current_end)])
    ELSE ranges

\* mutant: only the next calendar day extends a range (diff <= 1)
RECURSIVE GroupLoopNextDayOnly(_, _, _, _, _, _)
GroupLoopNextDayOnly(dates, at, current_start, current_end, ranges, max_ignored_gap_size) ==
    IF at > Len(dates)
    THEN CloseRange(ranges, current_start, current_end, max_ignored_gap_size)
    ELSE LET next_dt == dates[at]
             diff == next_dt - current_end
         IN IF diff <= 1
            THEN GroupLoopNextDayOnly(dates, at + 1, current_start, next_dt, ranges,
                                      max_ignored_gap_size)
            ELSE GroupLoopNextDayOnly(dates, at + 1, next_dt, next_dt,
                                      CloseRange(ranges, current_start, current_end,
                                                 max_ignored_gap_size),
                                      max_ignored_gap_size)

\* mutant: a date within a week of the last one extends a range (diff <= 7)
RECURSIVE GroupLoopWithinWeek(_, _, _, _, _, _)
GroupLoopWithinWeek(dates, at, current_start, current_end, ranges, max_ignored_gap_size) ==
    IF at > Len(dates)
    THEN CloseRange(ranges, current_start, current_end, max_ignored_gap_size)
    ELSE LET next_dt == dates[at]
             diff == next_dt - current_end
         IN IF diff <= 7
            THEN GroupLoopWithinWeek(dates, at + 1, current_start, next_dt, ranges,
                                     max_ignored_gap_size)
            ELSE GroupLoopWithinWeek(dates, at + 1, next_dt, next_dt,
                                     CloseRange(ranges, current_start, current_end,
                                                max_ignored_gap_size),
                                     max_ignored_gap_size)

\* the loop at line 115, from index at (1-based) on
RECURSIVE GroupLoop(_, _, _, _, _, _)
GroupLoop(dates, at, current_start, current_end, ranges, max_ignored_gap_size) ==
    IF at > Len(dates)
    THEN CloseRange(ranges, current_start, current_end, max_ignored_gap_size)
    ELSE LET next_dt == dates[at]
             diff == next_dt - current_end
         IN IF diff <= 3
            THEN GroupLoop(dates, at + 1, current_start, next_dt, ranges,
                           max_ignored_gap_size)
            ELSE GroupLoop(dates, at + 1, next_dt, next_dt,
                           CloseRange(ranges, current_start, current_end,
                                      max_ignored_gap_size),
                           max_ignored_gap_size)

\* mutant: one range from the first date to the last
group_missing_dates_in_one(dates, max_ignored_gap_size) ==
    IF dates = <<>> THEN <<>>
    ELSE <<[start |-> strftime(dates[1]), end |-> strftime(dates[Len(dates)])]>>

\* group_missing_dates, lines 102-140
group_missing_dates(dates, max_ignored_gap_size) ==
    IF dates = <<>> THEN <<>>
    ELSE GroupLoop(dates, 2, dates[1], dates[1], <<>>, max_ignored_gap_size)

\* the 'stocks' collection sorted by marketCap descending
Directory == [at \in 1..NumSymbols |-> SymbolNames[at]]

\* get_stock_symbols, lines 33-41: skip and limit
get_stock_symbols(number, size) ==
    LET skip_amount == (number - 1) * size
    IN SubSeq(Directory, skip_amount + 1, Min(skip_amount + size, Len(Directory)))

\* all_missing_data[symbol] = ranges
SetItem(report, symbol, ranges) ==
    IF symbol \in Keys(report)
    THEN [at \in 1..Len(report) |->
             IF report[at].symbol = symbol
             THEN [symbol |-> symbol, ranges |-> ranges] ELSE report[at]]
    ELSE Append(report, [symbol |-> symbol, ranges |-> ranges])

\* FINHISAAB_MAX_IGNORED_GAP_SIZE, line 223
max_ignored_gap_size_default == 1

----------------------------------------------------------------------------
(* Windows, exclusions and stores the model draws from *)

FirstDay == strptime(<<2025, 1, 30>>)
Days == FirstDay..(FirstDay + WindowDays - 1)
Weekdays == {d \in Days : weekday(d) < 5}

ExclusionPool ==
    { Rng(<<2025, 1, 31>>, <<2025, 1, 31>>),
      Rng(<<2025, 1, 31>>, <<2025, 2, 3>>),
      Rng(<<2025, 2, 1>>, <<2025, 2, 2>>),
      Rng(<<2025, 1, 28>>, <<2025, 1, 30>>) }

ExclusionLists ==
    UNION {[1..len -> ExclusionPool] : len \in 0..MaxExclusions}

Doc(symbol, date, time) == [symbol |-> symbol, date |-> combine(date, time)]

\* documents of the symbol asked for, early and late in the day, and of another
DocPool ==
    {Doc(SymbolNames[1], d, t) : d \in Days, t \in {time_min, time_max}}
        \cup {Doc(SymbolNames[2], d, time_min) : d \in Days}

FindStores == {docs \in SUBSET DocPool : Cardinality(docs) <= MaxRecords}

\* per symbol: no document, all weekdays, or the first weekday only
CoveragePool ==
    {{}, Weekdays, {CHOOSE d \in Weekdays : \A e \in Weekdays : d <= e}}

DetectStores ==
    {UNION {{Doc(symbol, d, time_min) : d \in cover[symbol]} : symbol \in Symbols} :
        cover \in [Symbols -> CoveragePool]}

\* mongodb_example.main before it is started
LoaderIdle ==
    [pc |-> "idle", symbols_to_process |-> <<>>, i |-> 0, interval_index |-> 0,
     processed_intervals |-> <<>>, before |-> <<>>, log |-> <<>>]

\* no second executor process
OtherIdle ==
    [pc |-> "idle", startup |-> <<>>, missing_data |-> <<>>,
     ranges_to_symbols |-> EmptyMap, unique_ranges |-> <<>>, i |-> 0,
     retired |-> {}, persisted |-> {}]

DetectorIdle ==
    /\ dpc = "idle"
    /\ store = {}
    /\ start_date = 0
    /\ end_date = 0
    /\ exclusions = <<>>
    /\ batch_size = 0
    /\ max_batches = 0
    /\ batch_number = 0
    /\ processed_batches = 0
    /\ page = <<>>
    /\ symbol_idx = 0
    /\ all_missing_data = <<>>
    /\ missing_dates = <<>>
    /\ analysed = <<>>
    /\ directory_failed = FALSE
    /\ date_ranges = <<>>
    /\ ignored_gap_size = 0

----------------------------------------------------------------------------
(* The executor: fill_missing_data.main *)

Running == {"load", "fetch", "symbol", "retire", "open", "dump", "next"}

Event(ev, syms, res) == [ev |-> ev, syms |-> syms, res |-> res]

CurrentRange == unique_ranges[i]
symbols_to_process == ranges_to_symbols[CurrentRange]
num_sub_batches == NumSubBatches(symbols_to_process, fetch_batch_size)
current_sub_batch == SubBatch(symbols_to_process, sub_batch_idx, fetch_batch_size)

plan == <<ranges_to_symbols, unique_ranges, fetch_batch_size, startup, persisted>>

\* lines 93-97 at the head of a range: the division raises ZeroDivisionError
\* for a size of 0, and range(num_sub_batches) is empty for a negative size
EnterRange(symbols) ==
    IF fetch_batch_size = 0 THEN "crashed"
    ELSE IF NumSubBatches(symbols, fetch_batch_size) <= 0 THEN "retire"
    ELSE "fetch"

ExecInit ==
    /\ file \in {Readable(r) : r \in Reports}
                \cup {Unreadable(why) : why \in
                        {"missing", "unreadable", "malformed", "truncated", "badshape"}}
    /\ fetch_batch_size \in {1, MaxBatchSize}
    /\ pc = "load"
    /\ missing_data = <<>>
    /\ ranges_to_symbols = EmptyMap
    /\ unique_ranges = <<>>
    /\ i = 0
    /\ sub_batch_idx = 0
    /\ k = 0
    /\ batch_data = {}
    /\ range_fully_successful = TRUE
    /\ startup = <<>>
    /\ attempts = <<>>
    /\ retired = {}
    /\ persisted = {}
    /\ trace = <<>>
    /\ other = OtherIdle
    /\ loader = LoaderIdle
    /\ DetectorIdle

\* mutant: an unreadable report is taken for an empty one and written back
LoadNothingStartsEmpty ==
    /\ pc = "load"
    /\ \/ file.state \in {"missing", "unreadable", "malformed", "truncated"}
       \/ file.state = "ok" /\ file.data = <<>>
    /\ file' = Readable(<<>>)
    /\ pc' = "exit"
    /\ UNCHANGED <<missing_data, plan, i, sub_batch_idx, k, batch_data,
                   range_fully_successful, attempts, retired, trace>>
    /\ UNCHANGED <<detector, other, loader>>

\* lines 23-33 and 56-58: json.load fails, or the report is empty
LoadNothing ==
    /\ pc = "load"
    /\ \/ file.state \in {"missing", "unreadable", "malformed", "truncated"}
       \/ file.state = "ok" /\ file.data = <<>>
    /\ pc' = "exit"
    /\ UNCHANGED <<file, missing_data, plan, i, sub_batch_idx, k, batch_data,
                   range_fully_successful, attempts, retired, trace>>
    /\ UNCHANGED <<detector, other, loader>>

\* well-formed JSON of another shape: lines 63-78 raise, nothing catches it
LoadCrash ==
    /\ pc = "load"
    /\ file.state = "badshape"
    /\ pc' = "crashed"
    /\ UNCHANGED <<file, missing_data, plan, i, sub_batch_idx, k, batch_data,
                   range_fully_successful, attempts, retired, trace>>
    /\ UNCHANGED <<detector, other, loader>>

\* lines 54-95: load, restructure, sort, enter the first range
Load ==
    /\ pc = "load"
    /\ file.state = "ok" /\ file.data # <<>>
    /\ missing_data' = file.data
    /\ startup' = file.data
    /\ ranges_to_symbols' = GroupByRange(Obligations(file.data), EmptyMap)
    /\ unique_ranges' = SortByDuration(KeyOrder(Obligations(file.data), <<>>))
    /\ i' = 1
    /\ sub_batch_idx' = 0
    /\ range_fully_successful' = TRUE
    /\ pc' = IF unique_ranges' = <<>> THEN "done"
             ELSE EnterRange(ranges_to_symbols'[unique_ranges'[1]])
    /\ UNCHANGED <<file, fetch_batch_size, k, batch_data, attempts, retired,
                   persisted, trace>>
    /\ UNCHANGED <<detector, other, loader>>

\* lines 153-155 and the loop header at 97: the end of one sub-batch
EndSubBatch(events) ==
    /\ trace' = trace \o events \o
                (IF sub_batch_idx < num_sub_batches - 1
                 THEN <<Event("sleep", <<>>, "sub-batch")>>
                 ELSE <<>>)
    /\ sub_batch_idx' = sub_batch_idx + 1
    /\ pc' = IF sub_batch_idx + 1 < num_sub_batches THEN "fetch" ELSE "retire"
    /\ k' = 0
    /\ batch_data' = {}

Attempt == Append(attempts, <<CurrentRange, current_sub_batch>>)

\* mutant: line 151 left out
FetchErrorKeepsFlag ==
    /\ pc = "fetch"
    /\ attempts' = Attempt
    /\ EndSubBatch(<<Event("fetch", current_sub_batch, "error")>>)
    /\ UNCHANGED <<file, missing_data, plan, i, retired, range_fully_successful>>
    /\ UNCHANGED <<detector, other, loader>>

\* mutant: the error leaves the loop over the sub-batches
FetchErrorEndsRange ==
    /\ pc = "fetch"
    /\ attempts' = Attempt
    /\ range_fully_successful' = FALSE
    /\ trace' = Append(trace, Event("fetch", current_sub_batch, "error"))
    /\ pc' = "retire"
    /\ UNCHANGED <<file, missing_data, plan, i, sub_batch_idx, k, batch_data,
                   retired>>
    /\ UNCHANGED <<detector, other, loader>>

\* line 107 raises: lines 149-151
FetchError ==
    /\ pc = "fetch"
    /\ attempts' = Attempt
    /\ range_fully_successful' = FALSE
    /\ EndSubBatch(<<Event("fetch", current_sub_batch, "error")>>)
    /\ UNCHANGED <<file, missing_data, plan, i, retired>>
    /\ UNCHANGED <<detector, other, loader>>

\* mutant: an empty result counts as a failure of the range
FetchNoneFailsRange ==
    /\ pc = "fetch"
    /\ attempts' = Attempt
    /\ range_fully_successful' = FALSE
    /\ trace' = Append(trace, Event("fetch", current_sub_batch, "none"))
    /\ sub_batch_idx' = sub_batch_idx + 1
    /\ pc' = IF sub_batch_idx + 1 < num_sub_batches THEN "fetch" ELSE "retire"
    /\ UNCHANGED <<file, missing_data, plan, i, k, batch_data, retired>>
    /\ UNCHANGED <<detector, other, loader>>

\* line 107 gives None or an empty frame: lines 109-113, "continue"
FetchNone ==
    /\ pc = "fetch"
    /\ attempts' = Attempt
    /\ trace' = Append(trace, Event("fetch", current_sub_batch, "none"))
    /\ sub_batch_idx' = sub_batch_idx + 1
    /\ pc' = IF sub_batch_idx + 1 < num_sub_batches THEN "fetch" ELSE "retire"
    /\ UNCHANGED <<file, missing_data, plan, i, k, batch_data,
                   range_fully_successful, retired>>
    /\ UNCHANGED <<detector, other, loader>>

\* line 107 gives a frame with rows for the symbols in `have`
FetchData ==
    /\ pc = "fetch"
    /\ attempts' = Attempt
    /\ \E have \in SUBSET SeqToSet(current_sub_batch) :
         batch_data' = have
    /\ trace' = Append(trace, Event("fetch", current_sub_batch, "data"))
    /\ k' = 1
    /\ pc' = "symbol"
    /\ UNCHANGED <<file, missing_data, plan, i, sub_batch_idx,
                   range_fully_successful, retired>>
    /\ UNCHANGED <<detector, other, loader>>

\* the rest of one iteration of the loop at line 115
AfterSymbol(event) ==
    IF k < Len(current_sub_batch)
    THEN /\ k' = k + 1
         /\ trace' = Append(trace, event)
         /\ UNCHANGED <<pc, sub_batch_idx, batch_data>>
    ELSE EndSubBatch(<<event>>)

\* mutant: a symbol without a slice counts as a failure
SymbolNoDataFailsRange ==
    /\ pc = "symbol"
    /\ current_sub_batch[k] \notin batch_data
    /\ range_fully_successful' = FALSE
    /\ AfterSymbol(Event("symbol", <<current_sub_batch[k]>>, "nodata"))
    /\ UNCHANGED <<file, missing_data, plan, i, attempts, retired>>
    /\ UNCHANGED <<detector, other, loader>>

\* lines 131-133: no slice for the symbol
SymbolNoData ==
    /\ pc = "symbol"
    /\ current_sub_batch[k] \notin batch_data
    /\ AfterSymbol(Event("symbol", <<current_sub_batch[k]>>, "nodata"))
    /\ UNCHANGED <<file, missing_data, plan, i, range_fully_successful,
                   attempts, retired>>
    /\ UNCHANGED <<detector, other, loader>>

\* lines 135-147 with save_to_mongodb returning (True, ...)
SaveOk ==
    /\ pc = "symbol"
    /\ current_sub_batch[k] \in batch_data
    /\ AfterSymbol(Event("symbol", <<current_sub_batch[k]>>, "saved"))
    /\ UNCHANGED <<file, missing_data, plan, i, range_fully_successful,
                   attempts, retired>>
    /\ UNCHANGED <<detector, other, loader>>

\* mutant: line 145 left out
SaveFailKeepsFlag ==
    /\ pc = "symbol"
    /\ current_sub_batch[k] \in batch_data
    /\ AfterSymbol(Event("symbol", <<current_sub_batch[k]>>, "failed"))
    /\ UNCHANGED <<file, missing_data, plan, i, range_fully_successful,
                   attempts, retired>>
    /\ UNCHANGED <<detector, other, loader>>

\* mutant: the failed upsert leaves the loop over the symbols
SaveFailLeavesSubBatch ==
    /\ pc = "symbol"
    /\ current_sub_batch[k] \in batch_data
    /\ range_fully_successful' = FALSE
    /\ EndSubBatch(<<Event("symbol", <<current_sub_batch[k]>>, "failed")>>)
    /\ UNCHANGED <<file, missing_data, plan, i, attempts, retired>>
    /\ UNCHANGED <<detector, other, loader>>

\* lines 135-145 with save_to_mongodb returning (False, ...)
SaveFail ==
    /\ pc = "symbol"
    /\ current_sub_batch[k] \in batch_data
    /\ range_fully_successful' = FALSE
    /\ AfterSymbol(Event("symbol", <<current_sub_batch[k]>>, "failed"))
    /\ UNCHANGED <<file, missing_data, plan, i, attempts, retired>>
    /\ UNCHANGED <<detector, other, loader>>

\* mutant: a range that failed is fetched again from its first sub-batch
RetainRetries ==
    /\ pc = "retire"
    /\ ~range_fully_successful
    /\ pc' = "fetch"
    /\ sub_batch_idx' = 0
    /\ range_fully_successful' = TRUE
    /\ trace' = <<>>
    /\ UNCHANGED <<file, missing_data, plan, i, k, batch_data, attempts, retired>>
    /\ UNCHANGED <<detector, other, loader>>

\* mutant: a range that failed is removed for the symbols that were saved
RetainRetiresSaved ==
    /\ pc = "retire"
    /\ ~range_fully_successful
    /\ missing_data' =
          RemoveRange(missing_data,
                      SelectSeq(symbols_to_process,
                                LAMBDA symbol :
                                    \E n \in 1..Len(trace) :
                                        trace[n] = Event("symbol", <<symbol>>, "saved")),
                      CurrentRange)
    /\ pc' = "open"
    /\ UNCHANGED <<file, plan, i, sub_batch_idx, k, batch_data,
                   range_fully_successful, attempts, retired, trace>>
    /\ UNCHANGED <<detector, other, loader>>

\* line 159 with range_fully_successful False
Retain ==
    /\ pc = "retire"
    /\ ~range_fully_successful
    /\ pc' = "next"
    /\ UNCHANGED <<file, missing_data, plan, i, sub_batch_idx, k, batch_data,
                   range_fully_successful, attempts, retired, trace>>
    /\ UNCHANGED <<detector, other, loader>>

\* mutant: the range is removed for the first of its symbols only
RetireFirstSymbol ==
    /\ pc = "retire"
    /\ range_fully_successful
    /\ missing_data' = RemoveRange(missing_data, <<symbols_to_process[1]>>, CurrentRange)
    /\ retired' = retired \cup {CurrentRange}
    /\ pc' = "open"
    /\ UNCHANGED <<file, plan, i, sub_batch_idx, k, batch_data,
                   range_fully_successful, attempts, trace>>
    /\ UNCHANGED <<detector, other, loader>>

\* lines 159-169
Retire ==
    /\ pc = "retire"
    /\ range_fully_successful
    /\ missing_data' = RemoveRange(missing_data, symbols_to_process, CurrentRange)
    /\ retired' = retired \cup {CurrentRange}
    /\ pc' = "open"
    /\ UNCHANGED <<file, plan, i, sub_batch_idx, k, batch_data,
                   range_fully_successful, attempts, trace>>
    /\ UNCHANGED <<detector, other, loader>>

\* line 173: open(input_file, 'w') truncates the file
OpenReport ==
    /\ pc = "open"
    /\ file' = Unreadable("truncated")
    /\ pc' = "dump"
    /\ UNCHANGED <<missing_data, plan, i, sub_batch_idx, k, batch_data,
                   range_fully_successful, attempts, retired, trace>>
    /\ UNCHANGED <<detector, other, loader>>

\* line 173 raises: lines 176-177
OpenFails ==
    /\ pc = "open"
    /\ trace' = Append(trace, Event("write", <<>>, "failed"))
    /\ pc' = "next"
    /\ UNCHANGED <<file, missing_data, plan, i, sub_batch_idx, k, batch_data,
                   range_fully_successful, attempts, retired>>
    /\ UNCHANGED <<detector, other, loader>>

\* lines 174-175: json.dump and the close of the file.  When another process
\* wrote the file after the open at line 173, the two writes overlay: the file
\* is this report, or the mix of both, which is no JSON.
DumpReport ==
    /\ pc = "dump"
    /\ \/ file' = Readable(missing_data) /\ persisted' = retired
       \/ /\ file.state # "truncated"
          /\ file' = Unreadable("malformed")
          /\ UNCHANGED persisted
    /\ trace' = Append(trace, Event("write", <<>>, "ok"))
    /\ pc' = "next"
    /\ UNCHANGED <<missing_data, ranges_to_symbols, unique_ranges,
                   fetch_batch_size, startup, i, sub_batch_idx, k, batch_data,
                   range_fully_successful, attempts, retired>>
    /\ UNCHANGED <<detector, other, loader>>

\* lines 179-183 and the loop header at 83: on to the next range
NextRange ==
    /\ pc = "next"
    /\ i' = i + 1
    /\ sub_batch_idx' = 0
    /\ range_fully_successful' = TRUE
    /\ trace' = <<>>
    /\ pc' = IF i < Len(unique_ranges)
             THEN EnterRange(ranges_to_symbols[unique_ranges[i + 1]])
             ELSE "done"
    /\ UNCHANGED <<file, missing_data, plan, k, batch_data, attempts, retired>>
    /\ UNCHANGED <<detector, other, loader>>

\* the process is terminated from outside: its memory is gone, the file stays
Kill ==
    /\ pc \in Running
    /\ pc' = "killed"
    /\ missing_data' = <<>>
    /\ ranges_to_symbols' = EmptyMap
    /\ unique_ranges' = <<>>
    /\ i' = 0
    /\ sub_batch_idx' = 0
    /\ k' = 0
    /\ batch_data' = {}
    /\ range_fully_successful' = TRUE
    /\ trace' = <<>>
    /\ UNCHANGED <<file, fetch_batch_size, startup, attempts, retired, persisted>>
    /\ UNCHANGED <<detector, other, loader>>

Init == ExecInit

Next ==
    \/ LoadNothing
    \/ LoadCrash
    \/ Load
    \/ FetchError
    \/ FetchNone
    \/ FetchData
    \/ SymbolNoData
    \/ SaveOk
    \/ SaveFail
    \/ Retain
    \/ Retire
    \/ OpenReport
    \/ OpenFails
    \/ DumpReport
    \/ NextRange
    \/ Kill

Spec == Init /\ [][Next]_vars

\* the same runs for every integer FINHISAAB_BATCH_SIZE can hold (line 51):
\* negative, zero and positive
PlanInit ==
    /\ file \in {Readable(r) : r \in Reports}
                \cup {Unreadable(why) : why \in
                        {"missing", "unreadable", "malformed", "truncated", "badshape"}}
    /\ fetch_batch_size \in {0 - 1, 0, 1, MaxBatchSize}
    /\ pc = "load"
    /\ missing_data = <<>>
    /\ ranges_to_symbols = EmptyMap
    /\ unique_ranges = <<>>
    /\ i = 0
    /\ sub_batch_idx = 0
    /\ k = 0
    /\ batch_data = {}
    /\ range_fully_successful = TRUE
    /\ startup = <<>>
    /\ attempts = <<>>
    /\ retired = {}
    /\ persisted = {}
    /\ trace = <<>>
    /\ other = OtherIdle
    /\ loader = LoaderIdle
    /\ DetectorIdle

SpecPlan == PlanInit /\ [][Next]_vars

----------------------------------------------------------------------------
(* The run in which nothing fails, and the run that follows it: every      *)
(* fetch gives rows for every symbol asked for, save_to_mongodb returns    *)
(* (True, ...), and the report is written.  The process is scheduled until *)
(* main() returns.                                                         *)

\* line 107 gives a frame with rows for every symbol of the sub-batch
FetchAll ==
    /\ pc = "fetch"
    /\ attempts' = Attempt
    /\ batch_data' = SeqToSet(current_sub_batch)
    /\ trace' = Append(trace, Event("fetch", current_sub_batch, "data"))
    /\ k' = 1
    /\ pc' = "symbol"
    /\ UNCHANGED <<file, missing_data, plan, i, sub_batch_idx,
                   range_fully_successful, retired>>
    /\ UNCHANGED <<detector, other, loader>>

\* main() has returned and the script is started again on the same file: the
\* locals are new, the history of the fetches and retirements is kept
Rerun ==
    /\ pc = "done"
    /\ pc' = "load"
    /\ missing_data' = <<>>
    /\ ranges_to_symbols' = EmptyMap
    /\ unique_ranges' = <<>>
    /\ i' = 0
    /\ sub_batch_idx' = 0
    /\ k' = 0
    /\ batch_data' = {}
    /\ range_fully_successful' = TRUE
    /\ trace' = <<>>
    /\ UNCHANGED <<file, fetch_batch_size, startup, attempts, retired, persisted>>
    /\ UNCHANGED <<detector, other, loader>>

CleanInit ==
    /\ file \in {Readable(r) : r \in Reports}
    /\ fetch_batch_size \in {1, MaxBatchSize}
    /\ pc = "load"
    /\ missing_data = <<>>
    /\ ranges_to_symbols = EmptyMap
    /\ unique_ranges = <<>>
    /\ i = 0
    /\ sub_batch_idx = 0
    /\ k = 0
    /\ batch_data = {}
    /\ range_fully_successful = TRUE
    /\ startup = <<>>
    /\ attempts = <<>>
    /\ retired = {}
    /\ persisted = {}
    /\ trace = <<>>
    /\ other = OtherIdle
    /\ loader = LoaderIdle
    /\ DetectorIdle

CleanNext ==
    \/ LoadNothing
    \/ Load
    \/ FetchAll
    \/ SaveOk
    \/ Retire
    \/ OpenReport
    \/ DumpReport
    \/ NextRange
    \/ Rerun

\* the started script leaves the load: main() returns at line 58 or goes on
Leave == pc = "load" /\ pc' \in {"exit", "done", "fetch"}

\* the steps of the loop at lines 83-183, and the start of the following run
Work ==
    \/ FetchAll
    \/ SaveOk
    \/ Retire
    \/ OpenReport
    \/ DumpReport
    \/ NextRange
    \/ Rerun

\* nothing blocks the process: the interpreter runs it until main() returns
SpecClean == CleanInit /\ [][CleanNext]_vars /\ WF_pc(Leave) /\ WF_vars(Work)

----------------------------------------------------------------------------
(* Two executor processes on one report file.  The first is the executor   *)
(* above, with a data source that returns nothing or raises; the second    *)
(* runs the same main() with each range taken in one step, clean or not.   *)

OtherStart == [OtherIdle EXCEPT !.pc = "load"]

OtherRange == other.unique_ranges[other.i]

\* the loop header at line 83 for the second process
OtherAdvance == IF other.i < Len(other.unique_ranges) THEN "range" ELSE "done"

\* reports with the first two symbols of the directory only
TwoReports == {r \in Reports : Keys(r) \subseteq {SymbolNames[1], SymbolNames[2]}}

TwoInit ==
    /\ file \in {Readable(r) : r \in TwoReports \ {<<>>}}
    /\ fetch_batch_size \in {1, MaxBatchSize}
    /\ pc = "load"
    /\ missing_data = <<>>
    /\ ranges_to_symbols = EmptyMap
    /\ unique_ranges = <<>>
    /\ i = 0
    /\ sub_batch_idx = 0
    /\ k = 0
    /\ batch_data = {}
    /\ range_fully_successful = TRUE
    /\ startup = <<>>
    /\ attempts = <<>>
    /\ retired = {}
    /\ persisted = {}
    /\ trace = <<>>
    /\ other = OtherStart
    /\ loader = LoaderIdle
    /\ DetectorIdle

\* lines 54-58 in the second process
OtherLoadNothing ==
    /\ other.pc = "load"
    /\ file.state # "ok" \/ file.data = <<>>
    /\ other' = [other EXCEPT !.pc = "exit"]
    /\ UNCHANGED <<file, executor, detector, loader>>

\* lines 54-78 in the second process
OtherLoad ==
    /\ other.pc = "load"
    /\ file.state = "ok" /\ file.data # <<>>
    /\ other' = [pc |-> "range",
                 startup |-> file.data,
                 missing_data |-> file.data,
                 ranges_to_symbols |-> GroupByRange(Obligations(file.data), EmptyMap),
                 unique_ranges |-> SortByDuration(KeyOrder(Obligations(file.data), <<>>)),
                 i |-> 1,
                 retired |-> {},
                 persisted |-> {}]
    /\ UNCHANGED <<file, executor, detector, loader>>

\* lines 97-159 in the second process: a fetch raised or an upsert failed
OtherRetain ==
    /\ other.pc = "range"
    /\ other' = [other EXCEPT !.i = @ + 1, !.pc = OtherAdvance]
    /\ UNCHANGED <<file, executor, detector, loader>>

\* lines 97-169 in the second process: the range ends clean and is removed
OtherRetire ==
    /\ other.pc = "range"
    /\ other' = [other EXCEPT
                    !.missing_data = RemoveRange(@, other.ranges_to_symbols[OtherRange],
                                                 OtherRange),
                    !.retired = @ \cup {OtherRange},
                    !.pc = "open"]
    /\ UNCHANGED <<file, executor, detector, loader>>

\* line 173 in the second process
OtherOpen ==
    /\ other.pc = "open"
    /\ file' = Unreadable("truncated")
    /\ other' = [other EXCEPT !.pc = "dump"]
    /\ UNCHANGED <<executor, detector, loader>>

\* mutant: the second process writes the report it read at startup
OtherDumpStartup ==
    /\ other.pc = "dump"
    /\ \/ /\ file' = Readable(other.startup)
          /\ other' = [other EXCEPT !.persisted = other.retired,
                                    !.i = @ + 1, !.pc = OtherAdvance]
       \/ /\ file.state # "truncated"
          /\ file' = Unreadable("malformed")
          /\ other' = [other EXCEPT !.i = @ + 1, !.pc = OtherAdvance]
    /\ UNCHANGED <<executor, detector, loader>>

\* lines 174-175 in the second process
OtherDump ==
    /\ other.pc = "dump"
    /\ \/ /\ file' = Readable(other.missing_data)
          /\ other' = [other EXCEPT !.persisted = other.retired,
                                    !.i = @ + 1, !.pc = OtherAdvance]
       \/ /\ file.state # "truncated"
          /\ file' = Unreadable("malformed")
          /\ other' = [other EXCEPT !.i = @ + 1, !.pc = OtherAdvance]
    /\ UNCHANGED <<executor, detector, loader>>

TwoNext ==
    \/ LoadNothing
    \/ Load
    \/ FetchError
    \/ FetchNone
    \/ Retain
    \/ Retire
    \/ OpenReport
    \/ DumpReport
    \/ NextRange
    \/ OtherLoadNothing
    \/ OtherLoad
    \/ OtherRetain
    \/ OtherRetire
    \/ OtherOpen
    \/ OtherDump

SpecTwo == TwoInit /\ [][TwoNext]_vars

----------------------------------------------------------------------------
(* The detection run: find_missing_data.main.  A write of the report that  *)
(* raises is taken to raise in open(), before the file is touched.         *)

ExecutorIdle ==
    /\ pc = "idle"
    /\ missing_data = <<>>
    /\ ranges_to_symbols = EmptyMap
    /\ unique_ranges = <<>>
    /\ fetch_batch_size = 0
    /\ i = 0
    /\ sub_batch_idx = 0
    /\ k = 0
    /\ batch_data = {}
    /\ range_fully_successful = TRUE
    /\ startup = <<>>
    /\ attempts = <<>>
    /\ retired = {}
    /\ persisted = {}
    /\ trace = <<>>
    /\ other = OtherIdle

\* a report an earlier run left behind
OldReport == <<[symbol |-> SymbolNames[1], ranges |-> <<RangePool[1]>>]>>

DetectInit ==
    /\ ExecutorIdle
    /\ loader = LoaderIdle
    /\ file \in {Unreadable("missing"), Readable(OldReport)}
    /\ dpc = "page"
    /\ store \in DetectStores
    /\ start_date = FirstDay
    /\ end_date = FirstDay + WindowDays - 1
    /\ exclusions \in {list \in ExclusionLists : Len(list) <= 1}
    /\ batch_size \in 1..MaxBatchSize
    /\ max_batches \in 0..MaxBatches
    /\ batch_number = 1
    /\ processed_batches = 0
    /\ page = <<>>
    /\ symbol_idx = 0
    /\ all_missing_data = <<>>
    /\ missing_dates = <<>>
    /\ analysed = <<>>
    /\ directory_failed = FALSE
    /\ date_ranges = <<>>
    /\ ignored_gap_size = max_ignored_gap_size_default

settings == <<store, start_date, end_date, exclusions, batch_size, max_batches,
              ignored_gap_size>>

\* lines 239-247
GetPage ==
    /\ dpc = "page"
    /\ page' = get_stock_symbols(batch_number, batch_size)
    /\ symbol_idx' = 1
    /\ dpc' = IF page' = <<>> THEN "save" ELSE "symbol"
    /\ UNCHANGED <<file, executor, other, loader, settings, date_ranges,
                   batch_number, processed_batches,
                   all_missing_data, missing_dates, analysed, directory_failed>>

\* lines 43-45: get_stock_symbols catches a PyMongoError and returns []
GetPageFails ==
    /\ dpc = "page"
    /\ page' = <<>>
    /\ directory_failed' = TRUE
    /\ dpc' = "save"
    /\ UNCHANGED <<file, executor, other, loader, settings, date_ranges,
                   batch_number, processed_batches,
                   symbol_idx, all_missing_data, missing_dates, analysed>>

\* lines 251 and 272-277: the next symbol, or the end of the page
AfterAnalysis ==
    IF symbol_idx < Len(page)
    THEN /\ symbol_idx' = symbol_idx + 1
         /\ UNCHANGED <<dpc, batch_number, processed_batches>>
    ELSE /\ batch_number' = batch_number + 1
         /\ processed_batches' = processed_batches + 1
         /\ dpc' = IF max_batches # 0 /\ processed_batches + 1 >= max_batches
                   THEN "save" ELSE "page"
         /\ UNCHANGED symbol_idx

\* mutant: the failed query ends the run
QueryFailsAndStops ==
    /\ dpc = "symbol"
    /\ missing_dates' = <<>>
    /\ analysed' = Append(analysed, <<page[symbol_idx], "failed">>)
    /\ dpc' = "done"
    /\ UNCHANGED <<file, executor, other, loader, settings, date_ranges, page, all_missing_data,
                   directory_failed, symbol_idx, batch_number, processed_batches>>

\* lines 95-97 and 269-270: the query raises, find_missing_dates returns []
QueryFails ==
    /\ dpc = "symbol"
    /\ missing_dates' = <<>>
    /\ analysed' = Append(analysed, <<page[symbol_idx], "failed">>)
    /\ AfterAnalysis
    /\ UNCHANGED <<file, executor, other, loader, settings, date_ranges, page, all_missing_data,
                   directory_failed>>

\* lines 252-270 when the query answers
Analyse ==
    /\ dpc = "symbol"
    /\ LET symbol == page[symbol_idx]
           missing == find_missing_dates(symbol, start_date, end_date,
                                         exclusions, store)
           grouped == group_missing_dates(missing, ignored_gap_size)
       IN /\ missing_dates' = missing
          /\ date_ranges' = IF missing # <<>> THEN grouped ELSE date_ranges
          /\ all_missing_data' =
                 IF missing # <<>> /\ grouped # <<>>
                 THEN SetItem(all_missing_data, symbol, grouped)
                 ELSE all_missing_data
          /\ analysed' = Append(analysed,
                 <<symbol, IF missing = <<>> THEN "complete"
                           ELSE IF grouped = <<>> THEN "small" ELSE "gaps">>)
    /\ AfterAnalysis
    /\ UNCHANGED <<file, executor, other, loader, settings, page, directory_failed>>

\* lines 286-290
SaveReport ==
    /\ dpc = "save"
    /\ all_missing_data # <<>>
    /\ file' = Readable(all_missing_data)
    /\ dpc' = "done"
    /\ UNCHANGED <<executor, other, loader, settings, date_ranges,
                   batch_number, processed_batches, page,
                   symbol_idx, all_missing_data, missing_dates, analysed,
                   directory_failed>>

\* lines 291-292
SaveReportFails ==
    /\ dpc = "save"
    /\ all_missing_data # <<>>
    /\ dpc' = "failed"
    /\ UNCHANGED <<file, executor, other, loader, settings, date_ranges,
                   batch_number, processed_batches,
                   page, symbol_idx, all_missing_data, missing_dates, analysed,
                   directory_failed>>

\* line 286 with nothing to report
SaveNothing ==
    /\ dpc = "save"
    /\ all_missing_data = <<>>
    /\ dpc' = "done"
    /\ UNCHANGED <<file, executor, other, loader, settings, date_ranges,
                   batch_number, processed_batches,
                   page, symbol_idx, all_missing_data, missing_dates, analysed,
                   directory_failed>>

DetectNext ==
    \/ GetPage
    \/ GetPageFails
    \/ QueryFails
    \/ Analyse
    \/ SaveReport
    \/ SaveReportFails
    \/ SaveNothing

SpecDetect == DetectInit /\ [][DetectNext]_vars

----------------------------------------------------------------------------
(* find_missing_dates on its own, for every window, exclusion list and store *)

FindInit ==
    /\ ExecutorIdle
    /\ loader = LoaderIdle
    /\ file = Unreadable("missing")
    /\ dpc = "call"
    /\ store \in FindStores
    /\ start_date \in Days
    /\ end_date \in Days
    /\ exclusions \in ExclusionLists
    /\ batch_size = 0
    /\ max_batches = 0
    /\ batch_number = 0
    /\ processed_batches = 0
    /\ page = <<SymbolNames[1]>>
    /\ symbol_idx = 1
    /\ all_missing_data = <<>>
    /\ missing_dates = <<>>
    /\ analysed = <<>>
    /\ directory_failed = FALSE
    /\ date_ranges = <<>>
    /\ ignored_gap_size = 0

\* lines 56-93
FindReturns ==
    /\ dpc = "call"
    /\ missing_dates' = find_missing_dates(page[symbol_idx], start_date, end_date,
                                           exclusions, store)
    /\ dpc' = "returned"
    /\ UNCHANGED <<file, executor, other, loader, settings, date_ranges,
                   batch_number, processed_batches,
                   page, symbol_idx, all_missing_data, analysed, directory_failed>>

\* lines 95-97
FindRaises ==
    /\ dpc = "call"
    /\ missing_dates' = <<>>
    /\ dpc' = "raised"
    /\ UNCHANGED <<file, executor, other, loader, settings, date_ranges,
                   batch_number, processed_batches,
                   page, symbol_idx, all_missing_data, analysed, directory_failed>>

FindNext ==
    \/ FindReturns
    \/ FindRaises

SpecFind == FindInit /\ [][FindNext]_vars

----------------------------------------------------------------------------
(* group_missing_dates on its own, for every ascending list of dates of a  *)
(* window and every max_ignored_gap_size                                   *)

GroupFirstDay == strptime(<<2025, 1, 3>>)
GroupWindow == GroupFirstDay..(GroupFirstDay + GroupDays - 1)

GroupInit ==
    /\ ExecutorIdle
    /\ loader = LoaderIdle
    /\ file = Unreadable("missing")
    /\ dpc = "group"
    /\ store = {}
    /\ start_date = GroupFirstDay
    /\ end_date = GroupFirstDay + GroupDays - 1
    /\ exclusions = <<>>
    /\ batch_size = 0
    /\ max_batches = 0
    /\ batch_number = 0
    /\ processed_batches = 0
    /\ page = <<>>
    /\ symbol_idx = 0
    /\ all_missing_data = <<>>
    /\ missing_dates \in {sorted(set) : set \in SUBSET GroupWindow}
    /\ analysed = <<>>
    /\ directory_failed = FALSE
    /\ date_ranges = <<>>
    /\ ignored_gap_size \in 0..MaxIgnoredGap

\* the dates of the list that lie inside one of the ranges
RECURSIVE DatesInside(_, _)
DatesInside(dates, list) ==
    IF dates = <<>> THEN <<>>
    ELSE LET rest == DatesInside(Tail(dates), list)
         IN IF \E at \in 1..Len(list) :
                   /\ strptime(list[at].start) <= Head(dates)
                   /\ Head(dates) <= strptime(list[at].end)
            THEN <<Head(dates)>> \o rest
            ELSE rest

\* lines 102-140
Group ==
    /\ dpc = "group"
    /\ date_ranges' = group_missing_dates(missing_dates, ignored_gap_size)
    /\ dpc' = "grouped"
    /\ UNCHANGED <<file, executor, other, loader, settings, batch_number, processed_batches,
                   page, symbol_idx, all_missing_data, missing_dates, analysed,
                   directory_failed>>

\* group_missing_dates again, on the dates its ranges cover
Regroup ==
    /\ dpc = "grouped"
    /\ date_ranges' = group_missing_dates(DatesInside(missing_dates, date_ranges),
                                          ignored_gap_size)
    /\ dpc' = "regrouped"
    /\ UNCHANGED <<file, executor, other, loader, settings, batch_number, processed_batches,
                   page, symbol_idx, all_missing_data, missing_dates, analysed,
                   directory_failed>>

GroupNext ==
    \/ Group
    \/ Regroup

SpecGroup == GroupInit /\ [][GroupNext]_vars

----------------------------------------------------------------------------
(* The analysis of one symbol (main, lines 251-270) over a week from       *)
(* Monday, for every set of days the symbol has a record for               *)

GapDays == 5

GapFirstDay == strptime(<<2025, 1, 6>>)
GapWindow == GapFirstDay..(GapFirstDay + GapDays - 1)

GapInit ==
    /\ ExecutorIdle
    /\ loader = LoaderIdle
    /\ file = Unreadable("missing")
    /\ dpc = "symbol"
    /\ store \in {{Doc(SymbolNames[1], d, time_min) : d \in covered} :
                      covered \in SUBSET GapWindow}
    /\ start_date = GapFirstDay
    /\ end_date = GapFirstDay + GapDays - 1
    /\ exclusions \in {<<>>, <<Rng(<<2025, 1, 8>>, <<2025, 1, 8>>)>>}
    /\ batch_size = 1
    /\ max_batches = 1
    /\ batch_number = 1
    /\ processed_batches = 0
    /\ page = <<SymbolNames[1]>>
    /\ symbol_idx = 1
    /\ all_missing_data = <<>>
    /\ missing_dates = <<>>
    /\ analysed = <<>>
    /\ directory_failed = FALSE
    /\ date_ranges = <<>>
    /\ ignored_gap_size \in 0..MaxIgnoredGap

GapNext ==
    \/ QueryFails
    \/ Analyse

SpecGaps == GapInit /\ [][GapNext]_vars

----------------------------------------------------------------------------
(* The interval-based loader: mongodb_example.main.  processed_intervals   *)
(* is the collection of that name, kept as the list of its documents in    *)
(* insertion order, without the processed_at timestamp.                    *)

LoadYears == 2

interval_months == 12

loader_start_date == <<2005, 1, 1>>
loader_end_date == <<2005 + LoadYears - 1, 12, 31>>

\* split_date_range, lines 100-135, from current_start on
RECURSIVE split_date_range(_, _, _)
split_date_range(current_start, end, months) ==
    IF ~(strptime(current_start) < strptime(end)) THEN <<>>
    ELSE LET year == current_start[1] + ((current_start[2] - 1 + months) \div 12)
             month == ((current_start[2] - 1 + months) % 12) + 1
             day == Min(current_start[3], DaysInMonth(year, month))
             uncapped == <<year, month, day>>
             interval_end == IF strptime(uncapped) > strptime(end) THEN end
                             ELSE uncapped
         IN <<<<current_start, interval_end>>>>
            \o split_date_range(strftime(strptime(interval_end) + 1), end, months)

intervals == split_date_range(loader_start_date, loader_end_date, interval_months)

\* the document of lines 81-87
IntervalDocument(symbol, interval, no_data_found) ==
    [symbol |-> symbol,
     interval_start |-> combine(strptime(interval[1]), time_min),
     interval_end |-> combine(strptime(interval[2]), time_min),
     no_data_found |-> no_data_found]

\* is_interval_processed, lines 28-46, when find_one does not raise
is_interval_processed(symbol, interval, collection) ==
    \E n \in 1..Len(collection) :
        /\ collection[n].symbol = symbol
        /\ collection[n].interval_start = combine(strptime(interval[1]), time_min)
        /\ collection[n].interval_end = combine(strptime(interval[2]), time_min)

\* record_processed_interval, lines 70-91, when insert_one does not raise
record_processed_interval(collection, symbol, interval, no_data_found) ==
    Append(collection, IntervalDocument(symbol, interval, no_data_found))

LoaderSymbols == <<SymbolNames[1], SymbolNames[2]>>

\* records an earlier run left for the first symbol
RECURSIVE EarlierRecords(_, _)
EarlierRecords(chosen, n) ==
    IF n > Len(intervals) THEN <<>>
    ELSE (IF n \in chosen
          THEN <<IntervalDocument(SymbolNames[1], intervals[n], n = 1)>>
          ELSE <<>>)
         \o EarlierRecords(chosen, n + 1)

LoadInit ==
    /\ file = Unreadable("missing")
    /\ ExecutorIdle
    /\ DetectorIdle
    /\ \E chosen \in SUBSET (1..Len(intervals)) :
         loader = [LoaderIdle EXCEPT !.pc = "start",
                                     !.processed_intervals = EarlierRecords(chosen, 1),
                                     !.before = EarlierRecords(chosen, 1)]

LoaderSymbol == loader.symbols_to_process[loader.i]
LoaderInterval == intervals[loader.interval_index]

Logged(l, ev) ==
    [l EXCEPT !.log = Append(@, [symbol |-> l.symbols_to_process[l.i],
                                 interval |-> intervals[l.interval_index],
                                 ev |-> ev])]

\* the loop headers at lines 237 and 227: the next interval, the next symbol
NextInterval(l) ==
    IF l.interval_index < Len(intervals)
    THEN [l EXCEPT !.interval_index = @ + 1, !.pc = "check"]
    ELSE IF l.i < Len(l.symbols_to_process)
         THEN [l EXCEPT !.i = @ + 1, !.interval_index = 1, !.pc = "check"]
         ELSE [l EXCEPT !.pc = "done"]

\* lines 218-222: no symbol, or get_stock_symbols caught a PyMongoError
LoaderNoSymbols ==
    /\ loader.pc = "start"
    /\ loader' = [loader EXCEPT !.pc = "exit"]
    /\ UNCHANGED <<file, executor, detector, other>>

\* lines 218-237
LoaderStart ==
    /\ loader.pc = "start"
    /\ loader' = [loader EXCEPT !.symbols_to_process = LoaderSymbols,
                                !.i = 1,
                                !.interval_index = 1,
                                !.pc = IF intervals = <<>> THEN "done" ELSE "check"]
    /\ UNCHANGED <<file, executor, detector, other>>

\* lines 241-243: a record is found and the interval skipped
IntervalSkipped ==
    /\ loader.pc = "check"
    /\ is_interval_processed(LoaderSymbol, LoaderInterval, loader.processed_intervals)
    /\ loader' = NextInterval(Logged(loader, "skipped"))
    /\ UNCHANGED <<file, executor, detector, other>>

\* line 241: find_one gives None
IntervalNotProcessed ==
    /\ loader.pc = "check"
    /\ ~is_interval_processed(LoaderSymbol, LoaderInterval, loader.processed_intervals)
    /\ loader' = [loader EXCEPT !.pc = "fetch"]
    /\ UNCHANGED <<file, executor, detector, other>>

\* lines 48-50: the lookup raises PyMongoError, is_interval_processed gives False
LookupFails ==
    /\ loader.pc = "check"
    /\ loader' = [Logged(loader, "lookup failed") EXCEPT !.pc = "fetch"]
    /\ UNCHANGED <<file, executor, detector, other>>

\* lines 249-250 raise (stocks raises, or gives None): lines 267-269
IntervalFetchRaises ==
    /\ loader.pc = "fetch"
    /\ loader' = NextInterval(Logged(loader, "fetch error"))
    /\ UNCHANGED <<file, executor, detector, other>>

\* lines 249-251: an empty frame
IntervalFetchEmpty ==
    /\ loader.pc = "fetch"
    /\ loader' = [Logged(loader, "fetch empty") EXCEPT !.pc = "record no data"]
    /\ UNCHANGED <<file, executor, detector, other>>

\* lines 249-266: a frame with rows
IntervalFetchRows ==
    /\ loader.pc = "fetch"
    /\ loader' = [Logged(loader, "fetch rows") EXCEPT !.pc = "save"]
    /\ UNCHANGED <<file, executor, detector, other>>

\* lines 253-265 with insert_one done
RecordNoData ==
    /\ loader.pc = "record no data"
    /\ loader' = NextInterval(
                     [Logged(loader, "recorded") EXCEPT
                         !.processed_intervals =
                             record_processed_interval(@, LoaderSymbol, LoaderInterval, TRUE)])
    /\ UNCHANGED <<file, executor, detector, other>>

\* lines 253-265 with record_processed_interval giving False (lines 93-95)
RecordNoDataFails ==
    /\ loader.pc = "record no data"
    /\ loader' = NextInterval(Logged(loader, "record failed"))
    /\ UNCHANGED <<file, executor, detector, other>>

\* lines 273-284 with save_to_mongodb giving (True, ...)
IntervalSaved ==
    /\ loader.pc = "save"
    /\ loader' = [Logged(loader, "saved") EXCEPT !.pc = "record"]
    /\ UNCHANGED <<file, executor, detector, other>>

\* lines 273-284 with save_to_mongodb giving (False, ...)
IntervalSaveFails ==
    /\ loader.pc = "save"
    /\ loader' = NextInterval(Logged(loader, "save failed"))
    /\ UNCHANGED <<file, executor, detector, other>>

\* lines 285-296 with insert_one done
RecordSaved ==
    /\ loader.pc = "record"
    /\ loader' = NextInterval(
                     [Logged(loader, "recorded") EXCEPT
                         !.processed_intervals =
                             record_processed_interval(@, LoaderSymbol, LoaderInterval, FALSE)])
    /\ UNCHANGED <<file, executor, detector, other>>

\* lines 285-296 with record_processed_interval giving False
RecordSavedFails ==
    /\ loader.pc = "record"
    /\ loader' = NextInterval(Logged(loader, "record failed"))
    /\ UNCHANGED <<file, executor, detector, other>>

LoadNext ==
    \/ LoaderNoSymbols
    \/ LoaderStart
    \/ IntervalSkipped
    \/ IntervalNotProcessed
    \/ LookupFails
    \/ IntervalFetchRaises
    \/ IntervalFetchEmpty
    \/ IntervalFetchRows
    \/ RecordNoData
    \/ RecordNoDataFails
    \/ IntervalSaved
    \/ IntervalSaveFails
    \/ RecordSaved
    \/ RecordSavedFails

SpecLoad == LoadInit /\ [][LoadNext]_vars

----------------------------------------------------------------------------
(* Reading the state of a run *)

\* the run has loaded a report and has not been killed
Loaded == pc \in (Running \ {"load"}) \cup {"done"}

\* the loop over the sub-batches of the current range is over
RangeProcessed == pc \in {"retire", "open", "dump", "next"}

Lists(report, symbol, key) ==
    \E n \in 1..Len(report) :
        /\ report[n].symbol = symbol
        /\ \E m \in 1..Len(report[n].ranges) :
              report[n].ranges[m].start = key[1] /\ report[n].ranges[m].end = key[2]

FetchEvents == {n \in 1..Len(trace) : trace[n].ev = "fetch"}

FetchRaised == \E n \in FetchEvents : trace[n].res = "error"

Outcome(symbol, res) ==
    \E n \in 1..Len(trace) : trace[n] = Event("symbol", <<symbol>>, res)

InEmptyFetch(symbol) ==
    \E n \in FetchEvents :
        trace[n].res = "none" /\ symbol \in SeqToSet(trace[n].syms)

UpsertFailed == \E symbol \in Symbols : Outcome(symbol, "failed")

UpsertSucceeded == \E symbol \in Symbols : Outcome(symbol, "saved")

\* no fetch raised, no upsert failed, every symbol saved or without data
CleanRange ==
    /\ ~FetchRaised
    /\ \A symbol \in SeqToSet(symbols_to_process) :
         /\ ~Outcome(symbol, "failed")
         /\ \/ Outcome(symbol, "saved")
            \/ Outcome(symbol, "nodata")
            \/ InEmptyFetch(symbol)

\* the current range is listed, in memory and in the file, for all its symbols
NothingRemovedForRange ==
    /\ file.state = "ok"
    /\ \A symbol \in SeqToSet(symbols_to_process) :
         /\ Lists(startup, symbol, CurrentRange)
         /\ Lists(missing_data, symbol, CurrentRange)
         /\ Lists(file.data, symbol, CurrentRange)

\* an obligation of a range that was not retired is in memory and in the file
UnretiredKept ==
    LET kept == {o \in ObligationSet(startup) : o[2] \notin retired}
    IN /\ kept \subseteq ObligationSet(missing_data)
       /\ file.state = "ok" => kept \subseteq ObligationSet(file.data)

\* every fetch the plan holds: all sub-batches of all ranges, in order
RECURSIVE PlannedAttempts(_)
PlannedAttempts(n) ==
    IF n > Len(unique_ranges) THEN <<>>
    ELSE LET key == unique_ranges[n]
             symbols == ranges_to_symbols[key]
         IN [j \in 1..NumSubBatches(symbols, fetch_batch_size) |->
                <<key, SubBatch(symbols, j - 1, fetch_batch_size)>>]
            \o PlannedAttempts(n + 1)

\* the fetches so far are the first ones of the plan; at the end, all of them
RunGoesOn ==
    LET planned == PlannedAttempts(1)
    IN /\ Loaded => attempts = SubSeq(planned, 1, Len(attempts))
       /\ RangeProcessed => Cardinality(FetchEvents) = num_sub_batches
       /\ pc = "done" => attempts = planned /\ file.state = "ok"

\* after a fetch with data, every symbol of the sub-batch got its turn
AllSymbolsProcessed ==
    \A n \in FetchEvents :
        trace[n].res = "data" =>
            \A m \in 1..Len(trace[n].syms) :
                /\ n + m <= Len(trace)
                /\ trace[n + m].ev = "symbol"
                /\ trace[n + m].syms = <<trace[n].syms[m]>>

----------------------------------------------------------------------------
(* C1 *)

\* C1: when the process is killed at any point of a run, the report file is a
\* readable report holding exactly the startup obligations minus the ranges
\* retired so far.
C1_KilledRunLeavesResumableReport ==
    (pc = "killed" /\ startup # <<>>) =>
        /\ file.state = "ok"
        /\ ObligationSet(file.data) =
               {o \in ObligationSet(startup) : o[2] \notin persisted}

----------------------------------------------------------------------------
(* C2 *)

\* C2: an obligation leaves the report only by the retirement of its own range,
\* and a range is retired only when no fetch for it raised and every one of its
\* symbols was upserted or reported without data; after a fetch error or a
\* failed upsert nothing of the range is removed.
C2_RemovalOnlyAfterCleanRange ==
    Loaded =>
        /\ \A o \in ObligationSet(startup) \ ObligationSet(missing_data) :
               o[2] \in retired
        /\ file.state = "ok" =>
               \A o \in ObligationSet(startup) \ ObligationSet(file.data) :
                   o[2] \in persisted /\ o[2] \in retired
        /\ \A n \in 1..Len(unique_ranges) :
               unique_ranges[n] \in retired =>
                   n < i \/ (n = i /\ pc \in {"open", "dump", "next"})
        /\ (RangeProcessed /\ CurrentRange \in retired) => CleanRange
        /\ (RangeProcessed /\ (FetchRaised \/ UpsertFailed)) =>
               (pc # "retire" => CurrentRange \notin retired)
               /\ NothingRemovedForRange

C2_Witness ==
    /\ pc = "next"
    /\ CurrentRange \in persisted
    /\ UpsertSucceeded
    /\ \E symbol \in Symbols : Outcome(symbol, "nodata")
    /\ ~Lists(file.data, symbols_to_process[1], CurrentRange)

----------------------------------------------------------------------------
(* C3 *)

\* C3 as stated: after a range with failed and successful upserts, the report
\* lists the range for the failed symbols and no longer for the saved ones.
C3_RetainedOnlyForFailedSymbols ==
    (pc = "next" /\ UpsertFailed /\ UpsertSucceeded) =>
        \A symbol \in SeqToSet(symbols_to_process) :
            /\ Outcome(symbol, "failed") =>
                   Lists(missing_data, symbol, CurrentRange)
            /\ Outcome(symbol, "saved") =>
                   ~Lists(missing_data, symbol, CurrentRange)

\* C3 (amended): after a range with failed and successful upserts, the report
\* in memory and on disk still lists the range for every symbol of the range,
\* the saved ones too.
C3_RetainedForEverySymbol ==
    (pc = "next" /\ UpsertFailed /\ UpsertSucceeded) =>
        /\ CurrentRange \notin retired
        /\ NothingRemovedForRange

C3_Witness ==
    /\ pc = "next"
    /\ UpsertFailed
    /\ UpsertSucceeded
    /\ \E symbol \in Symbols :
         Outcome(symbol, "saved") /\ Lists(file.data, symbol, CurrentRange)

----------------------------------------------------------------------------
(* C4 *)

ScenarioB ==
    /\ pc = "next"
    /\ symbols_to_process = <<"AAA", "BBB", "CCC">>
    /\ Outcome("AAA", "saved")
    /\ Outcome("CCC", "saved")
    /\ Outcome("BBB", "nodata") \/ InEmptyFetch("BBB")

\* C4 as stated: with A and C saved and an empty slice for B, the range is gone
\* for A and C and still listed for B.
C4_EmptySliceSymbolRetained ==
    ScenarioB =>
        /\ ~Lists(missing_data, "AAA", CurrentRange)
        /\ ~Lists(missing_data, "CCC", CurrentRange)
        /\ Lists(missing_data, "BBB", CurrentRange)

\* C4 (amended): with A and C saved and an empty slice for B, the range is
\* retired for A, B and C alike; the file shows it once the rewrite succeeded.
C4_EmptySliceSymbolRetired ==
    ScenarioB =>
        /\ CurrentRange \in retired
        /\ \A symbol \in {"AAA", "BBB", "CCC"} :
             /\ ~Lists(missing_data, symbol, CurrentRange)
             /\ trace[Len(trace)].res = "ok" =>
                    ~Lists(file.data, symbol, CurrentRange)

C4_Witness ==
    /\ ScenarioB
    /\ trace[Len(trace)] = Event("write", <<>>, "ok")
    /\ ~Lists(file.data, "BBB", CurrentRange)

----------------------------------------------------------------------------
(* C5 *)

NoEmptyList(report) == \A n \in 1..Len(report) : report[n].ranges # <<>>

RangesOf(report, symbol) ==
    IF symbol \in Keys(report)
    THEN {<<r.start, r.end>> : r \in SeqToSet(Get(report, symbol))}
    ELSE {}

\* C5: a symbol all of whose ranges were retired is no key of the report, and no
\* report held or written by the executor maps a symbol to an empty list.
C5_FullyRetiredSymbolDeleted ==
    Loaded =>
        /\ NoEmptyList(missing_data)
        /\ file.state = "ok" => NoEmptyList(file.data)
        /\ \A symbol \in Keys(startup) :
             /\ RangesOf(startup, symbol) \subseteq retired =>
                    symbol \notin Keys(missing_data)
             /\ (file.state = "ok" /\ RangesOf(startup, symbol) \subseteq persisted) =>
                    symbol \notin Keys(file.data)

C5_Witness ==
    /\ pc = "done"
    /\ file.data # <<>>
    /\ \E symbol \in Keys(startup) :
         /\ Cardinality(RangesOf(startup, symbol)) = 2
         /\ RangesOf(startup, symbol) \subseteq persisted
         /\ symbol \notin Keys(file.data)

----------------------------------------------------------------------------
(* C6 *)

\* C6: after a fetch error the range stays in the report, in memory and on
\* disk, to the end of the run, and every remaining sub-batch of the range and
\* every remaining range is still fetched.
C6_FetchErrorRetainsAndContinues ==
    /\ (RangeProcessed /\ FetchRaised) =>
           (pc # "retire" => CurrentRange \notin retired)
           /\ NothingRemovedForRange
    /\ Loaded => UnretiredKept
    /\ RunGoesOn

C6_Witness ==
    /\ pc = "next"
    /\ i < Len(unique_ranges)
    /\ num_sub_batches > 1
    /\ trace[1] = Event("fetch", SubBatch(symbols_to_process, 0, fetch_batch_size), "error")
    /\ Cardinality(FetchEvents) = num_sub_batches

----------------------------------------------------------------------------
(* C7 *)

\* C7: after a failed upsert every remaining symbol of the sub-batch, every
\* later sub-batch and every later range is still processed, and the symbol's
\* obligation for the range stays in the report to the end of the run.
C7_UpsertFailureRetainsAndContinues ==
    /\ Loaded => AllSymbolsProcessed \/ pc = "symbol"
    /\ \A symbol \in Symbols :
         (pc = "next" /\ Outcome(symbol, "failed")) =>
             /\ CurrentRange \notin retired
             /\ Lists(missing_data, symbol, CurrentRange)
             /\ file.state = "ok" /\ Lists(file.data, symbol, CurrentRange)
    /\ Loaded => UnretiredKept
    /\ RunGoesOn

C7_Witness ==
    /\ pc = "next"
    /\ i < Len(unique_ranges)
    /\ \E n \in 1..(Len(trace) - 1) :
         /\ trace[n].ev = "symbol" /\ trace[n].res = "failed"
         /\ trace[n + 1].ev = "symbol" /\ trace[n + 1].res = "saved"

----------------------------------------------------------------------------
(* C8 *)

\* C8: a run that finds the report file missing, unreadable or malformed ends
\* at once, without a fetch, an upsert or a write to the file.
C8_UnreadableReportAbortsBeforeWork ==
    [][/\ (pc = "load" /\ file.state # "ok") =>
              /\ pc' \in {"exit", "crashed", "killed"}
              /\ file' = file
              /\ attempts' = <<>> /\ trace' = <<>> /\ retired' = {}
       /\ pc \notin {"exit", "crashed"}]_vars

C8_Witness ==
    /\ pc = "exit"
    /\ file.state \in {"missing", "unreadable", "malformed", "truncated"}
    /\ attempts = <<>>

----------------------------------------------------------------------------
(* C9 *)

Stopped == dpc \in {"save", "done", "failed"}

AnalysedSymbols == [at \in 1..Len(analysed) |-> analysed[at][1]]

\* the symbols a run with these settings analyses when no directory page fails
PlannedSymbols ==
    SubSeq(Directory, 1,
           IF max_batches = 0 THEN Len(Directory)
           ELSE Min(max_batches * batch_size, Len(Directory)))

\* the symbols of the pages taken so far
WholePages == SubSeq(Directory, 1, Min(processed_batches * batch_size, Len(Directory)))

GapsOf(symbol) ==
    group_missing_dates(find_missing_dates(symbol, start_date, end_date,
                                           exclusions, store),
                        max_ignored_gap_size_default)

\* C9: a failed coverage query does not end the run: the run stops at the end
\* of a page only, having analysed every symbol of every page it was set to
\* take, and the gaps found for the symbols whose query answered are in the
\* report, which is written to the file.
C9_FailedQueryDoesNotAbortRun ==
    /\ Stopped => AnalysedSymbols = WholePages
    /\ (Stopped /\ ~directory_failed) => AnalysedSymbols = PlannedSymbols
    /\ Stopped =>
         \A at \in 1..Len(analysed) :
            analysed[at][2] # "failed" =>
               LET symbol == analysed[at][1]
                   gaps == GapsOf(symbol)
               IN IF gaps # <<>>
                  THEN /\ symbol \in Keys(all_missing_data)
                       /\ Get(all_missing_data, symbol) = gaps
                  ELSE symbol \notin Keys(all_missing_data)
    /\ (dpc = "done" /\ all_missing_data # <<>>) => file = Readable(all_missing_data)

C9_Witness ==
    /\ dpc = "done"
    /\ ~directory_failed
    /\ Len(analysed) = NumSymbols
    /\ batch_size < NumSymbols
    /\ analysed[1][2] = "failed"
    /\ analysed[2][2] = "gaps"
    /\ analysed[NumSymbols][2] = "gaps"
    /\ file = Readable(all_missing_data)
    /\ Keys(all_missing_data) = {analysed[2][1], analysed[NumSymbols][1]}

----------------------------------------------------------------------------
(* C10 *)

Excluded(d) ==
    \E at \in 1..Len(exclusions) :
        strptime(exclusions[at].start) <= d /\ d <= strptime(exclusions[at].end)

expectedDates ==
    {d \in start_date..end_date : weekday(d) < 5 /\ ~Excluded(d)}

datesPresent ==
    {doc.date.date : doc \in {x \in store :
        /\ x.symbol = page[symbol_idx]
        /\ start_date <= x.date.date
        /\ x.date.date <= end_date}}

\* C10: what find_missing_dates returns is, as a set, the expected dates of the
\* window (weekdays outside every exclusion) less the dates the symbol has a
\* record on, whatever the time of day of the record; it lists each date once.
C10_MissingIsExpectedMinusPresent ==
    dpc = "returned" =>
        /\ SeqToSet(missing_dates) = expectedDates \ datesPresent
        /\ Len(missing_dates) = Cardinality(expectedDates \ datesPresent)

C10_Witness ==
    /\ dpc = "returned"
    /\ missing_dates # <<>>
    /\ exclusions # <<>>
    /\ \E d \in start_date..end_date : weekday(d) < 5 /\ Excluded(d)
    /\ Doc(page[symbol_idx], end_date, time_max) \in store
    /\ weekday(end_date) < 5
    /\ \E doc \in store : doc.symbol # page[symbol_idx] /\ doc.date.date \in SeqToSet(missing_dates)

----------------------------------------------------------------------------
(* C11 *)

StrictlyAscending(dates) ==
    \A at \in 1..(Len(dates) - 1) : dates[at] < dates[at + 1]

NoRecord == \A doc \in store : doc.symbol # page[symbol_idx]

\* C11: the dates returned lie in the expected calendar, the Monday-Friday
\* dates of the window inside no exclusion, and are all of it when the symbol
\* has no record; an empty window gives nothing; the list is strictly
\* ascending, so without duplicates.
C11_ExpectedCalendarAscending ==
    dpc = "returned" =>
        /\ SeqToSet(missing_dates) \subseteq
               {d \in start_date..end_date :
                   /\ weekday(d) \in 0..4
                   /\ \A at \in 1..Len(exclusions) :
                        d < strptime(exclusions[at].start)
                        \/ d > strptime(exclusions[at].end)}
        /\ NoRecord =>
               \A d \in start_date..end_date :
                   (weekday(d) \in 0..4 /\ ~Excluded(d)) => d \in SeqToSet(missing_dates)
        /\ start_date > end_date => missing_dates = <<>>
        /\ StrictlyAscending(missing_dates)

C11_Witness ==
    /\ dpc = "returned"
    /\ NoRecord
    /\ Len(missing_dates) >= 2
    /\ \E at \in 1..Len(exclusions) :
         /\ exclusions[at].start # exclusions[at].end
         /\ \E d \in start_date..end_date :
              /\ weekday(d) < 5
              /\ strptime(exclusions[at].start) <= d
              /\ d <= strptime(exclusions[at].end)
    /\ \E d \in start_date..end_date : weekday(d) >= 5

----------------------------------------------------------------------------
(* C12 *)

Grouped == dpc \in {"grouped", "regrouped"}

\* C12: the ranges returned for an ascending list of dates are in ascending
\* order and do not overlap, and each starts more than 3 calendar days after
\* the one before it ends.
C12_RangesAscendingAndSeparated ==
    Grouped =>
        /\ \A at \in 1..Len(date_ranges) :
             strptime(date_ranges[at].start) <= strptime(date_ranges[at].end)
        /\ \A a, b \in 1..Len(date_ranges) :
             a < b => strptime(date_ranges[a].end) < strptime(date_ranges[b].start)
        /\ \A at \in 1..(Len(date_ranges) - 1) :
             strptime(date_ranges[at + 1].start) - strptime(date_ranges[at].end) > 3

C12_Witness ==
    /\ dpc = "grouped"
    /\ Len(date_ranges) >= 2
    /\ \E at \in 1..(Len(missing_dates) - 1) :
         /\ missing_dates[at + 1] - missing_dates[at] = 3
         /\ weekday(missing_dates[at]) = 4
         /\ strptime(date_ranges[1].start) <= missing_dates[at]
         /\ missing_dates[at + 1] <= strptime(date_ranges[1].end)
    /\ strptime(date_ranges[2].start) - strptime(date_ranges[1].end) = 4

----------------------------------------------------------------------------
(* C13 *)

BusinessDays(r) ==
    Cardinality({d \in strptime(r.start)..strptime(r.end) : weekday(d) \in 0..4})

\* C13: every range returned, the last one too, holds more Monday-Friday dates
\* than max_ignored_gap_size; with the default of 1 no range of a single day
\* is returned.
C13_ShortRangesDropped ==
    Grouped =>
        /\ \A at \in 1..Len(date_ranges) :
             BusinessDays(date_ranges[at]) > ignored_gap_size
        /\ ignored_gap_size >= max_ignored_gap_size_default =>
             \A at \in 1..Len(date_ranges) :
                 date_ranges[at].start # date_ranges[at].end

C13_Witness ==
    /\ dpc = "grouped"
    /\ ignored_gap_size = max_ignored_gap_size_default
    /\ Len(missing_dates) >= 4
    /\ Len(date_ranges) = 1
    /\ BusinessDays(date_ranges[1]) = ignored_gap_size + 1
    /\ missing_dates[1] < strptime(date_ranges[1].start)
    /\ weekday(missing_dates[1]) < 5
    /\ missing_dates[Len(missing_dates)] > strptime(date_ranges[1].end)
    /\ weekday(missing_dates[Len(missing_dates)]) < 5

----------------------------------------------------------------------------
(* C14 *)

\* C14: grouping again the dates that lie inside the ranges returned gives the
\* same ranges.
C14_GroupIdempotent ==
    [][dpc = "grouped" => date_ranges' = date_ranges]_vars

C14_Witness ==
    /\ dpc = "regrouped"
    /\ Len(date_ranges) >= 2
    /\ DatesInside(missing_dates, date_ranges) # missing_dates
    /\ DatesInside(missing_dates, date_ranges) # <<>>

----------------------------------------------------------------------------
(* C15 *)

ScenarioA ==
    << strptime(<<2025, 1, 6>>), strptime(<<2025, 1, 7>>),
       strptime(<<2025, 1, 8>>), strptime(<<2025, 1, 13>>) >>

\* C15: for the missing dates 2025-01-06, 01-07, 01-08 and 01-13 the ranges
\* formed are 01-06..01-08 and 01-13..01-13, and with max_ignored_gap_size 1
\* the second is dropped: the result is the one range 2025-01-06..2025-01-08.
C15_ScenarioAGrouping ==
    (dpc = "grouped" /\ missing_dates = ScenarioA) =>
        /\ ignored_gap_size = 0 =>
             date_ranges = << Rng(<<2025, 1, 6>>, <<2025, 1, 8>>),
                              Rng(<<2025, 1, 13>>, <<2025, 1, 13>>) >>
        /\ ignored_gap_size = 1 =>
             date_ranges = << Rng(<<2025, 1, 6>>, <<2025, 1, 8>>) >>

C15_Witness ==
    /\ dpc = "grouped"
    /\ missing_dates = ScenarioA
    /\ ignored_gap_size = 1
    /\ date_ranges = << [start |-> <<2025, 1, 6>>, end |-> <<2025, 1, 8>>] >>

----------------------------------------------------------------------------
(* C16 *)

\* the plan is in place: the run is past the load and still alive
Planned == pc \in (Running \ {"load"}) \cup {"done"}

Overlap(a, b) ==
    /\ a # b
    /\ strptime(a[1]) <= strptime(b[2])
    /\ strptime(b[1]) <= strptime(a[2])

\* C16: a symbol is listed under the key (start, end) exactly when the report
\* as loaded lists that range for it, once; the keys are the pairs of the
\* report, each once, so ranges that overlap without being equal stay apart.
C16_InversionExact ==
    Planned =>
        /\ DOMAIN ranges_to_symbols = {o[2] : o \in ObligationSet(startup)}
        /\ \A key \in DOMAIN ranges_to_symbols :
             /\ \A symbol \in Symbols :
                  symbol \in SeqToSet(ranges_to_symbols[key])
                      <=> Lists(startup, symbol, key)
             /\ Len(ranges_to_symbols[key]) =
                    Cardinality(SeqToSet(ranges_to_symbols[key]))
        /\ SeqToSet(unique_ranges) = DOMAIN ranges_to_symbols
        /\ Len(unique_ranges) = Cardinality(DOMAIN ranges_to_symbols)

C16_Witness ==
    /\ pc = "fetch"
    /\ attempts = <<>>
    /\ \E a, b \in DOMAIN ranges_to_symbols :
         /\ Overlap(a, b)
         /\ Len(ranges_to_symbols[a]) >= 2
         /\ SeqToSet(ranges_to_symbols[a]) \cap SeqToSet(ranges_to_symbols[b]) = {}

----------------------------------------------------------------------------
(* C17 *)

AttemptsOf(key) == {at \in 1..Len(attempts) : attempts[at][1] = key}

\* C17: no fetch is made for a range after a fetch for a strictly shorter one;
\* the fetches of one range are consecutive, and the run turns to the next
\* range only when every sub-batch of the range has been fetched.
C17_LongestFirstRangeByRange ==
    /\ \A a, b \in 1..Len(attempts) :
         a < b => get_duration(attempts[a][1]) >= get_duration(attempts[b][1])
    /\ \A a \in 1..(Len(attempts) - 1) :
         attempts[a][1] # attempts[a + 1][1] =>
             \A b \in (a + 1)..Len(attempts) : attempts[b][1] # attempts[a][1]
    /\ Planned =>
         \A at \in 1..(Len(attempts) - 1) :
            attempts[at][1] # attempts[at + 1][1] =>
               Cardinality(AttemptsOf(attempts[at][1])) =
                   NumSubBatches(ranges_to_symbols[attempts[at][1]], fetch_batch_size)

C17_Witness ==
    /\ pc = "done"
    /\ Len(unique_ranges) >= 2
    /\ get_duration(attempts[1][1]) > get_duration(attempts[Len(attempts)][1])
    /\ KeyOrder(Obligations(startup), <<>>)[1] = attempts[Len(attempts)][1]
    /\ Cardinality(AttemptsOf(attempts[1][1])) >= 2

----------------------------------------------------------------------------
(* C18 *)

RECURSIVE Concat(_)
Concat(lists) == IF lists = <<>> THEN <<>> ELSE Head(lists) \o Concat(Tail(lists))

\* the sub-batches fetched for the current range, in order
RECURSIVE SubBatchesSent(_)
SubBatchesSent(at) ==
    IF at > Len(trace) THEN <<>>
    ELSE (IF trace[at].ev = "fetch" THEN <<trace[at].syms>> ELSE <<>>)
         \o SubBatchesSent(at + 1)

\* C18: for every sub-batch size the sub-batches fetched for a range are its
\* symbol list cut in order into pieces of 1 to fetch_batch_size symbols, all
\* for the range's (start, end), and the planning of a report raises no error.
C18_SubBatchesPartition ==
    /\ (pc = "crashed") => file.state = "badshape"
    /\ RangeProcessed =>
         /\ Concat(SubBatchesSent(1)) = symbols_to_process
         /\ \A at \in 1..Len(SubBatchesSent(1)) :
              /\ Len(SubBatchesSent(1)[at]) >= 1
              /\ Len(SubBatchesSent(1)[at]) <= fetch_batch_size
    /\ \A at \in 1..Len(attempts) :
         /\ attempts[at][1] \in {o[2] : o \in ObligationSet(startup)}
         /\ \A n \in 1..Len(attempts[at][2]) :
              <<attempts[at][2][n], attempts[at][1]>> \in ObligationSet(startup)

----------------------------------------------------------------------------
(* C19 *)

\* C19: between two fetches of a range a delay is taken, whatever the first of
\* them returned.  (The delay between two ranges, lines 179-183, is taken on
\* every path and is part of NextRange.)
C19_DelayBetweenFetches ==
    \A a, b \in FetchEvents :
        a < b => \E m \in (a + 1)..(b - 1) : trace[m].ev = "sleep"

----------------------------------------------------------------------------
(* C20 *)

\* what a process wrote last: the report it read less the ranges it persisted
WrittenBy(read, done) == {o \in ObligationSet(read) : o[2] \notin done}

\* C20: with two executor processes on one file, a readable file holds the
\* whole view of one of them, the report that process read at startup less
\* the ranges that process itself persisted; what the other process retired
\* in between is not taken into account.
C20_FileIsOneProcessView ==
    file.state = "ok" =>
        \/ pc = "load" /\ other.pc = "load"
        \/ pc \notin {"load", "exit"}
              /\ ObligationSet(file.data) = WrittenBy(startup, persisted)
        \/ other.pc \notin {"load", "exit"}
              /\ ObligationSet(file.data) = WrittenBy(other.startup, other.persisted)

\* the lost update: the file lists an obligation again that the first process
\* had retired and written out
C20_Witness ==
    /\ pc = "done"
    /\ other.pc = "done"
    /\ file.state = "ok"
    /\ \E o \in ObligationSet(file.data) :
         /\ o[2] \in persisted
         /\ o \notin ObligationSet(missing_data)
    /\ \E o \in ObligationSet(startup) :
         o[2] \in other.persisted /\ o \notin ObligationSet(file.data)

----------------------------------------------------------------------------
(* C21 *)

RECURSIVE SumSubBatches(_, _)
\* the fetches a run makes for the report: one per sub-batch of each range
SumSubBatches(map, keys) ==
    IF keys = {} THEN 0
    ELSE LET key == CHOOSE q \in keys : TRUE
         IN NumSubBatches(map[key], fetch_batch_size)
            + SumSubBatches(map, keys \ {key})

PlannedFetches(report) ==
    LET map == GroupByRange(Obligations(report), EmptyMap)
    IN SumSubBatches(map, DOMAIN map)

\* C21: when every fetch has rows for every symbol and every upsert and write
\* of the report succeeds, a run on a report with obligations ends with the
\* file holding the empty mapping, and the run that follows returns at once:
\* the fetches ever made stay those of the first run.
C21_CleanRunEmptiesReport ==
    /\ ((pc = "load" /\ file.data # <<>>) ~> (pc = "done" /\ file = Readable(<<>>)))
    /\ <>[](/\ pc = "exit"
            /\ file = Readable(<<>>)
            /\ Len(attempts) = PlannedFetches(startup))

C21_Witness ==
    /\ pc = "exit"
    /\ file = Readable(<<>>)
    /\ Cardinality(Keys(startup)) >= 2
    /\ Cardinality(persisted) >= 2
    /\ Len(attempts) = PlannedFetches(startup)
    /\ Len(attempts) > Cardinality(persisted)

----------------------------------------------------------------------------
(* C22 *)

\* the report less the ranges in keys: every other range stays where it is,
\* and a symbol left without a range is no key
Without(report, keys) ==
    LET kept(e) == [symbol |-> e.symbol,
                    ranges |-> SelectSeq(e.ranges, LAMBDA r : KeyOf(r) \notin keys)]
        shrunk == [n \in 1..Len(report) |-> kept(report[n])]
    IN SelectSeq(shrunk, LAMBDA e : e.ranges # <<>>)

\* C22: the report in memory is the startup report less the retired ranges,
\* and a readable file is the startup report less the ranges whose removal
\* was written: nothing is added, no start or end is changed, and what is
\* not retired keeps its place.
C22_ReportOnlyShrinks ==
    /\ Loaded => missing_data = Without(startup, retired)
    /\ (startup # <<>> /\ file.state = "ok") =>
           file.data = Without(startup, persisted)

C22_Witness ==
    /\ pc = "next"
    /\ CurrentRange \in persisted
    /\ file.data # <<>>
    /\ \E n \in 1..Len(startup) :
         /\ Len(startup[n].ranges) = 2
         /\ KeyOf(startup[n].ranges[1]) = CurrentRange
         /\ file.data[1].symbol = startup[n].symbol
         /\ n > 1
         /\ file.data[1].ranges = <<startup[n].ranges[2]>>

----------------------------------------------------------------------------
(* C23 *)

\* every symbol of sub-batch j of the current range was upserted
SavedAll(j) ==
    LET sent == SubBatch(symbols_to_process, j, fetch_batch_size)
    IN \A n \in 1..Len(sent) : Outcome(sent[n], "saved")

\* C23 as stated: before the next sub-batch is fetched, the range is gone from
\* the report for the symbols of a sub-batch that was saved whole.
C23_RetiredPerSubBatch ==
    (pc = "fetch" /\ sub_batch_idx >= 1) =>
        \A j \in 0..(sub_batch_idx - 1) :
            SavedAll(j) =>
                \A symbol \in SeqToSet(SubBatch(symbols_to_process, j, fetch_batch_size)) :
                    /\ ~Lists(missing_data, symbol, CurrentRange)
                    /\ file.state = "ok" => ~Lists(file.data, symbol, CurrentRange)

\* C23: retirement is decided per range.  While the sub-batches of a range
\* are fetched nothing of the range is removed and the file is not written;
\* when a sub-batch failed the range stays for every symbol, those of a
\* sub-batch that was saved whole included.
C23_RetiredPerRange ==
    /\ pc \in {"fetch", "symbol", "retire"} =>
          /\ NothingRemovedForRange
          /\ \A n \in 1..Len(trace) : trace[n].ev # "write"
    /\ (pc = "next" /\ (FetchRaised \/ UpsertFailed)) =>
          /\ NothingRemovedForRange
          /\ \A n \in 1..Len(trace) : trace[n].ev # "write"

C23_Witness ==
    /\ pc = "next"
    /\ num_sub_batches >= 2
    /\ SavedAll(0)
    /\ ~SavedAll(1)
    /\ UpsertFailed
    /\ Lists(file.data, symbols_to_process[1], CurrentRange)
    /\ Lists(missing_data, symbols_to_process[1], CurrentRange)

----------------------------------------------------------------------------
(* C24 *)

EmptyFetches == {n \in FetchEvents : trace[n].res = "none"}

Written == \E n \in 1..Len(trace) : trace[n] = Event("write", <<>>, "ok")

\* C24: a fetch that returns nothing is no failure.  None of its symbols is
\* upserted or looked up in the frame, the flag of the range stays set, and
\* when nothing else of the range failed the range is removed for all of its
\* symbols, in memory and in the file once the rewrite succeeded.
C24_EmptyFetchCountsAsDone ==
    Loaded =>
        /\ \A n \in EmptyFetches :
             \A m \in 1..Len(trace) :
                 trace[m].ev = "symbol" => trace[m].syms[1] \notin SeqToSet(trace[n].syms)
        /\ (pc \in {"fetch", "symbol", "retire"} /\ ~FetchRaised /\ ~UpsertFailed) =>
               range_fully_successful
        /\ (pc = "next" /\ EmptyFetches # {} /\ ~FetchRaised /\ ~UpsertFailed) =>
               /\ CurrentRange \in retired
               /\ \A symbol \in SeqToSet(symbols_to_process) :
                    /\ Lists(startup, symbol, CurrentRange)
                    /\ ~Lists(missing_data, symbol, CurrentRange)
                    /\ Written =>
                          file.state = "ok" /\ ~Lists(file.data, symbol, CurrentRange)

C24_Witness ==
    /\ pc = "next"
    /\ num_sub_batches >= 2
    /\ EmptyFetches = FetchEvents
    /\ Written
    /\ CurrentRange \in persisted
    /\ \A symbol \in SeqToSet(symbols_to_process) :
         ~Lists(file.data, symbol, CurrentRange)

----------------------------------------------------------------------------
(* C25 *)

\* the dates at a..b of the list follow one another at 3 days or less
Linked(a, b) ==
    \A n \in a..(b - 1) : missing_dates[n + 1] - missing_dates[n] <= 3

\* the positions of the run of dates that holds position at
RunOf(at) ==
    {n \in 1..Len(missing_dates) : IF n <= at THEN Linked(n, at) ELSE Linked(at, n)}

\* the run of the date at position at is too short to be reported
RunDropped(at) ==
    LET run == RunOf(at)
        first == missing_dates[CHOOSE n \in run : \A m \in run : n <= m]
        last == missing_dates[CHOOSE n \in run : \A m \in run : m <= n]
    IN Cardinality({d \in first..last : weekday(d) \in 0..4}) <= ignored_gap_size

RangesHolding(d) ==
    {n \in 1..Len(date_ranges) :
        strptime(date_ranges[n].start) <= d /\ d <= strptime(date_ranges[n].end)}

\* C25: every range returned starts and ends on a date of the input list,
\* start not after end, and every date of the input lies in exactly one range
\* returned, unless its run was too short, and then in none.
C25_RangesDrawnFromInput ==
    Grouped =>
        /\ \A n \in 1..Len(date_ranges) :
             /\ strptime(date_ranges[n].start) <= strptime(date_ranges[n].end)
             /\ strptime(date_ranges[n].start) \in SeqToSet(missing_dates)
             /\ strptime(date_ranges[n].end) \in SeqToSet(missing_dates)
        /\ \A at \in 1..Len(missing_dates) :
             Cardinality(RangesHolding(missing_dates[at])) =
                 IF RunDropped(at) THEN 0 ELSE 1

C25_Witness ==
    /\ dpc = "grouped"
    /\ Len(date_ranges) = 2
    /\ date_ranges[1].start # date_ranges[1].end
    /\ weekday(strptime(date_ranges[1].start)) # 0
    /\ \E at \in 1..Len(missing_dates) :
         /\ RunDropped(at)
         /\ weekday(missing_dates[at]) \in 0..4
         /\ RangesHolding(missing_dates[at]) = {}
    /\ \E at \in 1..Len(missing_dates) :
         /\ RangesHolding(missing_dates[at]) = {2}
         /\ missing_dates[at] # strptime(date_ranges[2].start)
         /\ missing_dates[at] # strptime(date_ranges[2].end)

----------------------------------------------------------------------------
(* C26 *)

Had(symbol, interval, ev) ==
    \E n \in 1..Len(loader.log) :
        loader.log[n] = [symbol |-> symbol, interval |-> interval, ev |-> ev]

\* the documents inserted in this run
NewRecords ==
    {loader.processed_intervals[n] :
        n \in (Len(loader.before) + 1)..Len(loader.processed_intervals)}

LoaderPairs == SeqToSet(LoaderSymbols) \X SeqToSet(intervals)

\* a document is inserted only for an interval fetched in this run, flagged
\* no_data_found after an empty fetch and not flagged after a save that
\* succeeded; nothing is inserted after a fetch error or a failed save
RecordsFollowOutcome ==
    \A pair \in LoaderPairs :
        /\ IntervalDocument(pair[1], pair[2], TRUE) \in NewRecords =>
               Had(pair[1], pair[2], "fetch empty")
        /\ IntervalDocument(pair[1], pair[2], FALSE) \in NewRecords =>
               Had(pair[1], pair[2], "fetch rows") /\ Had(pair[1], pair[2], "saved")
        /\ (Had(pair[1], pair[2], "fetch error") \/ Had(pair[1], pair[2], "save failed")) =>
               /\ IntervalDocument(pair[1], pair[2], TRUE) \notin NewRecords
               /\ IntervalDocument(pair[1], pair[2], FALSE) \notin NewRecords

\* an interval that had a record when the run started is not fetched or saved
RecordedIntervalsSkipped ==
    \A pair \in LoaderPairs :
        is_interval_processed(pair[1], pair[2], loader.before) =>
            \A ev \in {"fetch error", "fetch empty", "fetch rows", "saved",
                       "save failed", "recorded"} :
                ~Had(pair[1], pair[2], ev)

\* C26: a processed-interval record is written only after its interval was
\* fetched in this run, with no_data_found true after an empty fetch and false
\* after a successful save, never after a fetch error or a failed save; and an
\* interval that already has a record is skipped without any fetch or save.
C26_RecordOnlyAfterOutcome ==
    /\ RecordsFollowOutcome
    /\ RecordedIntervalsSkipped

----------------------------------------------------------------------------
(* C27 *)

\* the symbol was analysed and its query answered
Answered == analysed # <<>> /\ analysed[Len(analysed)][2] # "failed"

InExclusion(d) ==
    \E n \in 1..Len(exclusions) :
        strptime(exclusions[n].start) <= d /\ d <= strptime(exclusions[n].end)

\* the expected business dates from the start to the end of the range
ExpectedIn(r) ==
    {d \in strptime(r.start)..strptime(r.end) : weekday(d) < 5 /\ ~InExclusion(d)}

\* d lies between two missing dates next to each other, 3 days apart or less
Bridged(d) ==
    \E n \in 1..(Len(missing_dates) - 1) :
        /\ missing_dates[n] < d
        /\ d < missing_dates[n + 1]
        /\ missing_dates[n + 1] - missing_dates[n] <= 3

\* C27 as stated: every expected business date inside a range returned is a
\* missing date of the symbol.
C27_RangesCoverOnlyMissingDates ==
    Answered =>
        \A n \in 1..Len(date_ranges) :
            ExpectedIn(date_ranges[n]) \subseteq SeqToSet(missing_dates)

\* C27: a range returned starts and ends on a missing date, and an expected
\* business date inside it is a missing date or lies between two missing
\* dates at most 3 days apart: such a date, for which the symbol has a
\* record, is covered by the range.
C27_RangesCoverMissingOrBridged ==
    Answered =>
        \A n \in 1..Len(date_ranges) :
            /\ strptime(date_ranges[n].start) \in SeqToSet(missing_dates)
            /\ strptime(date_ranges[n].end) \in SeqToSet(missing_dates)
            /\ \A d \in ExpectedIn(date_ranges[n]) :
                 \/ d \in SeqToSet(missing_dates)
                 \/ /\ Bridged(d)
                    /\ Doc(page[1], d, time_min) \in store

C27_Witness ==
    /\ Answered
    /\ exclusions = <<>>
    /\ ignored_gap_size = max_ignored_gap_size_default
    /\ Len(date_ranges) = 1
    /\ \E d \in ExpectedIn(date_ranges[1]) :
         /\ Doc(page[1], d, time_min) \in store
         /\ d - 1 \in SeqToSet(missing_dates)
         /\ d + 1 \in SeqToSet(missing_dates)

----------------------------------------------------------------------------
(* C28 *)

\* the obligations the report file holds, none when there is no readable file
OnFile == IF file.state = "ok" THEN ObligationSet(file.data) ELSE {}

\* C28: when a detection run has finished, the report file holds the
\* obligations detected in that run, each symbol with its ranges, and nothing
\* else: nothing of an earlier run when the run detected nothing.
C28_ReportHoldsThisRunOnly ==
    dpc = "done" =>
        /\ OnFile = ObligationSet(all_missing_data)
        /\ file.state = "ok" => file.data = all_missing_data

----------------------------------------------------------------------------
(* C29 *)

\* a run that nothing stops from outside: every step of main but the kill
RunNext ==
    \/ LoadNothing
    \/ LoadCrash
    \/ Load
    \/ FetchError
    \/ FetchNone
    \/ FetchData
    \/ SymbolNoData
    \/ SaveOk
    \/ SaveFail
    \/ Retain
    \/ Retire
    \/ OpenReport
    \/ OpenFails
    \/ DumpReport
    \/ NextRange

\* the report has been read: the run goes on, returns or raises
LeaveLoad == pc = "load" /\ pc' \in {"exit", "done", "fetch", "crashed"}

\* a statement of the loop over the ranges, whatever its outcome
Step ==
    \/ FetchError
    \/ FetchNone
    \/ FetchData
    \/ SymbolNoData
    \/ SaveOk
    \/ SaveFail
    \/ Retain
    \/ Retire
    \/ OpenReport
    \/ OpenFails
    \/ DumpReport
    \/ NextRange

\* the runs on an unreadable report and on a report that lists no more than
\* two symbols, with any of the ranges and either sub-batch size
RunInit ==
    /\ ExecInit
    /\ file.state = "ok" => Len(file.data) <= 2

\* the interpreter runs the next statement of main as long as there is one
SpecRun == RunInit /\ [][RunNext]_vars /\ WF_pc(LeaveLoad) /\ WF_vars(Step)

\* the places a symbol takes in the fetches made for a range
FetchedIn(key, symbol) ==
    {pos \in {<<at, n>> : at \in 1..Len(attempts), n \in 1..MaxBatchSize} :
        /\ attempts[pos[1]][1] = key
        /\ pos[2] <= Len(attempts[pos[1]][2])
        /\ attempts[pos[1]][2][pos[2]] = symbol}

RunOver == pc \in {"exit", "done", "crashed"}

NothingRetried ==
    /\ \A a \in 1..(Len(attempts) - 1) :
         attempts[a][1] # attempts[a + 1][1] =>
             \A b \in (a + 1)..Len(attempts) : attempts[b][1] # attempts[a][1]
    /\ Planned =>
         \A n \in 1..Len(unique_ranges) :
            \A m \in 1..Len(ranges_to_symbols[unique_ranges[n]]) :
               LET times == Cardinality(FetchedIn(unique_ranges[n],
                                ranges_to_symbols[unique_ranges[n]][m]))
               IN /\ times <= 1
                  /\ pc = "done" => times = 1
    /\ Planned => Len(attempts) <= PlannedFetches(startup)

\* C29: a run of the executor that is not stopped from outside ends, whatever
\* fetch, upsert or write of the report fails; in the run the fetches of a
\* range are made in one go, a symbol of a range is sent in at most one fetch
\* for it and, when the run is over, in exactly one: nothing is tried again.
C29_RunEndsWithoutRetry == []NothingRetried /\ <>[]RunOver

C29_Witness ==
    /\ pc = "done"
    /\ Len(unique_ranges) >= 2
    /\ Len(attempts) > Len(unique_ranges)
    /\ \E n \in 1..Len(unique_ranges) : unique_ranges[n] \notin retired
    /\ persisted # retired

----------------------------------------------------------------------------
(* C30 *)

\* lines 257-270: what main prints for a symbol, from what find_missing_dates
\* and group_missing_dates returned for it
Classified(missing, grouped) ==
    IF missing # <<>>
    THEN IF grouped # <<>> THEN "missing" ELSE "up to date or small gaps"
    ELSE "completely up to date"

\* the message of main for the symbol analysed last
Verdict == Classified(missing_dates, date_ranges)

QueryFailed == analysed # <<>> /\ analysed[Len(analysed)][2] = "failed"

\* C30: a symbol whose coverage query failed is not classified as completely
\* up to date: what the detector says of it differs from what it says of a
\* symbol that has a record for every expected date.
C30_FailedSymbolNotUpToDate ==
    QueryFailed => Verdict # "completely up to date"

====
